---------------------------- MODULE Spec2Model ----------------------------
(***************************************************************************)
(* Code Vault: the similarity engine of the server (tokenizeCode,          *)
(* calculateSimilarity, analyzeSimilarity), the duplicate guard of the     *)
(* editor extension (generateCodeHash, calculateCodeSimilarity,            *)
(* isCodeAlreadyInVault) and the capture path of the extension against     *)
(* the server's snippet store (processCodeCapture, saveSnippetToVault,     *)
(* POST /api/snippets, POST /api/ai/analyze).                              *)
(*                                                                         *)
(* A code string is a sequence of one-character strings, so that the       *)
(* conversions (lower-casing, splitting, the regular-expression            *)
(* replacements, the hash) are computed character by character.            *)
(*                                                                         *)
(* A JavaScript number that is the quotient of two small integers is kept  *)
(* as the reduced fraction [num, den]: two such quotients are the same     *)
(* double exactly when the fractions are equal, and i/u compares with the  *)
(* literals 0.3, 0.5, 0.7, 0.8 as the fraction does with 3/10, 1/2, 7/10,  *)
(* 4/5 (the literal is the double nearest to the fraction, which is what   *)
(* the division yields when i/u is that fraction, and every other i/u of   *)
(* small integers is farther away than a rounding error).                  *)
(***************************************************************************)
EXTENDS Integers, Sequences, FiniteSets, TLC

(***************************************************************************)
(* Characters                                                              *)
(***************************************************************************)

UpperLetters ==
  <<"A","B","C","D","E","F","G","H","I","J","K","L","M","N","O","P","Q","R","S","T","U","V","W","X","Y","Z">>

LowerLetters ==
  <<"a","b","c","d","e","f","g","h","i","j","k","l","m","n","o","p","q","r","s","t","u","v","w","x","y","z">>

Digits ==
  <<"0","1","2","3","4","5","6","7","8","9">>

\* The printable ASCII characters in code order: Ascii[i] has char code 31 + i
\* (the grave accent, code 96, is not written in a TLA+ string and holds its place).
Ascii ==
  <<" ","!","\"","#","$","%","&","'","(",")","*","+",",","-",".","/","0","1","2","3","4","5","6","7","8","9",":",";","<","=",">","?","@","A","B","C","D","E","F","G","H","I","J","K","L","M","N","O","P","Q","R","S","T","U","V","W","X","Y","Z","[","\\","]","^","_","(grave)","a","b","c","d","e","f","g","h","i","j","k","l","m","n","o","p","q","r","s","t","u","v","w","x","y","z","{","|","}","~">>

Range(s) == { s[i] : i \in DOMAIN s }

IndexIn(s, c) == CHOOSE i \in DOMAIN s : s[i] = c

\* String.prototype.charCodeAt, one character.
CharCodes ==
  [ c \in Range(Ascii) \cup {"\n", "\t", "\r"} |->
      IF c = "\n" THEN 10
      ELSE IF c = "\t" THEN 9
      ELSE IF c = "\r" THEN 13
      ELSE 31 + IndexIn(Ascii, c) ]

charCodeAt(c) == CharCodes[c]

\* String.prototype.toLowerCase, one character.
LowerCased ==
  [ c \in Range(UpperLetters) |-> LowerLetters[IndexIn(UpperLetters, c)] ]

toLowerChar(c) == IF c \in DOMAIN LowerCased THEN LowerCased[c] ELSE c

toLowerCase(s) == [ i \in DOMAIN s |-> toLowerChar(s[i]) ]

\* The regular-expression class \w: [A-Za-z0-9_].
WordChars ==
  Range(UpperLetters) \cup Range(LowerLetters) \cup Range(Digits) \cup {"_"}

IsWordChar(c) == c \in WordChars

\* The regular-expression class \d.
DigitChars == Range(Digits)

IsDigit(c) == c \in DigitChars

\* The regular-expression class \s, over the characters of the model.
IsSpace(c) == c \in {" ", "\n", "\t", "\r"}

\* A line terminator: what the regular-expression "." does not match and
\* where "$" matches under the m flag.
IsLineTerminator(c) == c \in {"\n", "\r"}

(***************************************************************************)
(* Numbers                                                                 *)
(***************************************************************************)

RECURSIVE Gcd(_, _)
Gcd(a, b) == IF b = 0 THEN a ELSE Gcd(b, a % b)

\* The double i / u (u > 0) as a reduced fraction.
Quotient(i, u) ==
  LET g == Gcd(i, u) IN [num |-> i \div g, den |-> u \div g]

Zero == [num |-> 0, den |-> 1]

One == [num |-> 1, den |-> 1]

\* r > n/d, for the comparisons with a decimal literal n/d.
Greater(r, n, d) == r.num * d > n * r.den

\* a > b, a = b on two quotients.
GreaterQ(a, b) == a.num * b.den > b.num * a.den

(***************************************************************************)
(* JavaScript arrays and Sets: a Set is kept as the sequence of its        *)
(* members in insertion order, without repetition. array.filter is         *)
(* SelectSeq.                                                              *)
(***************************************************************************)

Includes(s, x) == \E i \in DOMAIN s : s[i] = x

RECURSIVE NewSetFrom(_, _)
NewSetFrom(acc, s) ==
  IF s = <<>> THEN acc
  ELSE NewSetFrom(IF Includes(acc, Head(s)) THEN acc ELSE Append(acc, Head(s)), Tail(s))

\* new Set(array)
NewSet(s) == NewSetFrom(<<>>, s)

\* array.slice(0, n)
SliceTo(s, n) == IF Len(s) <= n THEN s ELSE SubSeq(s, 1, n)

(***************************************************************************)
(* Server: tokenizeCode, calculateSimilarity                               *)
(***************************************************************************)

StopList ==
  { <<"f","u","n","c","t","i","o","n">>, <<"c","o","n","s","t">>, <<"l","e","t">>,
    <<"v","a","r">>, <<"i","f">>, <<"e","l","s","e">>, <<"f","o","r">>,
    <<"w","h","i","l","e">>, <<"r","e","t","u","r","n">>, <<"c","l","a","s","s">>,
    <<"i","m","p","o","r","t">>, <<"e","x","p","o","r","t">> }

RECURSIVE SplitFrom(_, _, _, _)
SplitFrom(s, i, cur, acc) ==
  IF i > Len(s) THEN Append(acc, cur)
  ELSE IF IsWordChar(s[i]) THEN SplitFrom(s, i + 1, Append(cur, s[i]), acc)
  ELSE SplitFrom(s, i + 1, <<>>, Append(acc, cur))

\* code.split(/[^\w]/): every single non-word character separates two fields.
splitNonWord(s) == SplitFrom(s, 1, <<>>, <<>>)

\* token.length > 1
LongerThanOne(token) == Len(token) > 1

LongerThanTwo(token) == Len(token) > 2

NotStopWord(token) == token \notin StopList

tokenizeCode(code) ==
  SelectSeq(SelectSeq(splitNonWord(toLowerCase(code)), LongerThanTwo), NotStopWord)

\* Mutant: the token arrays are compared, not the token Sets.
calculateSimilarityOfArrays(code1, code2) ==
  LET tokens1 == tokenizeCode(code1)
      tokens2 == tokenizeCode(code2)
      InTokens2(x) == Includes(tokens2, x)
      intersection == SelectSeq(tokens1, InTokens2)
      union == tokens1 \o tokens2
  IN IF Len(union) = 0 THEN Zero ELSE Quotient(Len(intersection), Len(union))

\* Mutant: the intersection is divided by the size of the second Set.
calculateSimilarityOverSecond(code1, code2) ==
  LET set1 == NewSet(tokenizeCode(code1))
      set2 == NewSet(tokenizeCode(code2))
      InSet2(x) == Includes(set2, x)
      intersection == NewSet(SelectSeq(set1, InSet2))
  IN IF Len(set2) = 0 THEN Zero ELSE Quotient(Len(intersection), Len(set2))

\* Mutant: the union is the two Sets spread into an array, never made a Set.
calculateSimilarityOverSpread(code1, code2) ==
  LET set1 == NewSet(tokenizeCode(code1))
      set2 == NewSet(tokenizeCode(code2))
      InSet2(x) == Includes(set2, x)
      intersection == NewSet(SelectSeq(set1, InSet2))
      union == set1 \o set2
  IN IF Len(union) = 0 THEN Zero ELSE Quotient(Len(intersection), Len(union))

calculateSimilarity(code1, code2) ==
  LET tokens1 == tokenizeCode(code1)
      tokens2 == tokenizeCode(code2)
      set1 == NewSet(tokens1)
      set2 == NewSet(tokens2)
      InSet2(x) == Includes(set2, x)
      intersection == NewSet(SelectSeq(set1, InSet2))
      union == NewSet(set1 \o set2)
  IN IF Len(union) = 0 THEN Zero ELSE Quotient(Len(intersection), Len(union))

\* similarity > 0.2
PassesThresholdAboveFifth(similarity) == Greater(similarity, 1, 5)

\* Mutant: similarity >= 0.3.
PassesThresholdInclusive(similarity) == similarity.num * 10 >= 3 * similarity.den

\* The inclusion test of analyzeSimilarity: similarity > 0.3.
PassesThreshold(similarity) == Greater(similarity, 3, 10)

getSimilarityReason(similarity) ==
  IF Greater(similarity, 7, 10) THEN "Very similar implementation"
  ELSE IF Greater(similarity, 1, 2) THEN "Similar logic and structure"
  ELSE IF Greater(similarity, 3, 10) THEN "Related code patterns"
  ELSE "Some common elements"

RECURSIVE Join(_, _)
\* array.join(sep)
Join(parts, sep) ==
  IF parts = <<>> THEN <<>>
  ELSE IF Len(parts) = 1 THEN parts[1]
  ELSE parts[1] \o sep \o Join(Tail(parts), sep)

CommonPatterns ==
  <<"C","o","m","m","o","n"," ","p","a","t","t","e","r","n","s",":"," ">>

StructuralSimilarity ==
  <<"S","t","r","u","c","t","u","r","a","l"," ","s","i","m","i","l","a","r","i","t","y"," ","d","e","t","e","c","t","e","d">>

\* The common tokens taken in the order of the current code's tokens.
getCodeContextInCurrentOrder(snippetCode, currentCode) ==
  LET snippetTokens == NewSet(tokenizeCode(snippetCode))
      currentTokens == NewSet(tokenizeCode(currentCode))
      InSnippet(token) == Includes(snippetTokens, token)
      common == SelectSeq(currentTokens, InSnippet)
  IN IF Len(common) > 0
     THEN CommonPatterns \o Join(SliceTo(common, 3), <<",", " ">>)
     ELSE StructuralSimilarity

getCodeContext(snippetCode, currentCode) ==
  LET snippetTokens == NewSet(tokenizeCode(snippetCode))
      currentTokens == NewSet(tokenizeCode(currentCode))
      InCurrent(token) == Includes(currentTokens, token)
      common == SelectSeq(snippetTokens, InCurrent)
  IN IF Len(common) > 0
     THEN CommonPatterns \o Join(SliceTo(common, 3), <<",", " ">>)
     ELSE StructuralSimilarity

RECURSIVE InsertByConfidence(_, _)
\* Where a stable sort with the comparator b.confidence - a.confidence puts x
\* in an already sorted array: after every element whose confidence is not
\* smaller.
InsertByConfidence(sorted, x) ==
  IF sorted = <<>> THEN <<x>>
  ELSE IF GreaterQ(x.confidence, Head(sorted).confidence)
       THEN <<x>> \o sorted
       ELSE <<Head(sorted)>> \o InsertByConfidence(Tail(sorted), x)

RECURSIVE InsertBeforeEqual(_, _)
InsertBeforeEqual(sorted, x) ==
  IF sorted = <<>> THEN <<x>>
  ELSE IF ~GreaterQ(Head(sorted).confidence, x.confidence)
       THEN <<x>> \o sorted
       ELSE <<Head(sorted)>> \o InsertBeforeEqual(Tail(sorted), x)

RECURSIVE SortUnstableFrom(_, _)
SortUnstableFrom(sorted, rest) ==
  IF rest = <<>> THEN sorted
  ELSE SortUnstableFrom(InsertBeforeEqual(sorted, Head(rest)), Tail(rest))

\* Mutant: a sort that puts an element before the equal ones already placed.
SortByConfidenceUnstable(suggestions) == SortUnstableFrom(<<>>, suggestions)

RECURSIVE SortFrom(_, _)
SortFrom(sorted, rest) ==
  IF rest = <<>> THEN sorted
  ELSE SortFrom(InsertByConfidence(sorted, Head(rest)), Tail(rest))

\* suggestions.sort((a, b) => b.confidence - a.confidence): Array.prototype.sort
\* is stable (ECMAScript 2019, V8 7.0).
SortByConfidence(suggestions) == SortFrom(<<>>, suggestions)

\* The suggestion analyzeSimilarity pushes for one snippet.
Suggestion(currentCode, snippet, similarity) ==
  [ snippet |-> snippet,
    reason |-> getSimilarityReason(similarity),
    confidence |-> similarity,
    context |-> getCodeContext(snippet.code, currentCode) ]

RECURSIVE CollectSuggestions(_, _, _)
\* The for loop of analyzeSimilarity.
CollectSuggestions(currentCode, snippets, suggestions) ==
  IF snippets = <<>> THEN suggestions
  ELSE LET snippet == Head(snippets)
           similarity == calculateSimilarity(currentCode, snippet.code)
       IN CollectSuggestions(currentCode, Tail(snippets),
            IF PassesThreshold(similarity)
            THEN Append(suggestions, Suggestion(currentCode, snippet, similarity))
            ELSE suggestions)

\* The cut of analyzeSimilarity: .slice(0, 5).
SliceTop(suggestions) == SliceTo(suggestions, 5)

analyzeSimilarity(currentCode, snippets) ==
  SliceTop(SortByConfidence(CollectSuggestions(currentCode, snippets, <<>>)))

(***************************************************************************)
(* Extension: generateCodeHash, simpleHash, calculateCodeSimilarity        *)
(***************************************************************************)

\* Where the line that holds place i ends: the first line terminator at or
\* after i, or Len(s) + 1.
RECURSIVE LineEnd(_, _)
LineEnd(s, i) ==
  IF i > Len(s) \/ IsLineTerminator(s[i]) THEN i ELSE LineEnd(s, i + 1)

RECURSIVE LineCommentsFrom(_, _, _)
LineCommentsFrom(s, i, out) ==
  IF i > Len(s) THEN out
  ELSE IF s[i] = "/" /\ i < Len(s) /\ s[i + 1] = "/"
       THEN LineCommentsFrom(s, LineEnd(s, i), out)
       ELSE LineCommentsFrom(s, i + 1, Append(out, s[i]))

\* .replace(/\/\/.*$/gm, '')
removeLineComments(s) == LineCommentsFrom(s, 1, <<>>)

\* The first place at or after i where "*/" starts, or 0.
RECURSIVE BlockClose(_, _)
BlockClose(s, i) ==
  IF i >= Len(s) THEN 0
  ELSE IF s[i] = "*" /\ s[i + 1] = "/" THEN i
  ELSE BlockClose(s, i + 1)

RECURSIVE BlockCommentsFrom(_, _, _)
BlockCommentsFrom(s, i, out) ==
  IF i > Len(s) THEN out
  ELSE IF s[i] = "/" /\ i < Len(s) /\ s[i + 1] = "*" /\ BlockClose(s, i + 2) # 0
       THEN BlockCommentsFrom(s, BlockClose(s, i + 2) + 2, out)
       ELSE BlockCommentsFrom(s, i + 1, Append(out, s[i]))

\* .replace(/\/\*[\s\S]*?\*\//g, '')
removeBlockComments(s) == BlockCommentsFrom(s, 1, <<>>)

NotSpace(c) == ~IsSpace(c)

\* .replace(/\s+/g, '')
removeWhitespace(s) == SelectSeq(s, NotSpace)

RECURSIVE CollapseFrom(_, _, _)
CollapseFrom(s, i, out) ==
  IF i > Len(s) THEN out
  ELSE IF IsSpace(s[i])
       THEN CollapseFrom(s, i + 1,
              IF i > 1 /\ IsSpace(s[i - 1]) THEN out ELSE Append(out, " "))
       ELSE CollapseFrom(s, i + 1, Append(out, s[i]))

\* .replace(/\s+/g, ' ')
collapseWhitespace(s) == CollapseFrom(s, 1, <<>>)

\* Where the literal opened by the quote before place i closes: the place of
\* the closing quote, or 0 when /([^q\\]|\\.)*q/ does not match from there.
RECURSIVE StringClose(_, _, _)
StringClose(s, i, quote) ==
  IF i > Len(s) THEN 0
  ELSE IF s[i] = quote THEN i
  ELSE IF s[i] = "\\"
       THEN IF i < Len(s) /\ ~IsLineTerminator(s[i + 1])
            THEN StringClose(s, i + 2, quote)
            ELSE 0
       ELSE StringClose(s, i + 1, quote)

RECURSIVE StringsFrom(_, _, _, _)
StringsFrom(s, i, quote, out) ==
  IF i > Len(s) THEN out
  ELSE IF s[i] = quote /\ StringClose(s, i + 1, quote) # 0
       THEN StringsFrom(s, StringClose(s, i + 1, quote) + 1, quote, out \o <<quote, quote>>)
       ELSE StringsFrom(s, i + 1, quote, Append(out, s[i]))

\* .replace(/"([^"\\]|\\.)*"/g, '""') and the same with single quotes.
normalizeStrings(s, quote) == StringsFrom(s, 1, quote, <<>>)

\* Where the run of digits that starts at place i ends (its last place).
RECURSIVE DigitsEnd(_, _)
DigitsEnd(s, i) ==
  IF i < Len(s) /\ IsDigit(s[i + 1]) THEN DigitsEnd(s, i + 1) ELSE i

RECURSIVE NumbersFrom(_, _, _)
NumbersFrom(s, i, out) ==
  IF i > Len(s) THEN out
  ELSE IF /\ IsDigit(s[i])
          /\ (i = 1 \/ ~IsWordChar(s[i - 1]))
          /\ LET e == DigitsEnd(s, i) IN e = Len(s) \/ ~IsWordChar(s[e + 1])
       THEN NumbersFrom(s, DigitsEnd(s, i) + 1, Append(out, "0"))
       ELSE NumbersFrom(s, i + 1, Append(out, s[i]))

\* .replace(/\b\d+\b/g, '0')
normalizeNumbers(s) == NumbersFrom(s, 1, <<>>)

RECURSIVE TrimStart(_)
TrimStart(s) == IF s # <<>> /\ IsSpace(Head(s)) THEN TrimStart(Tail(s)) ELSE s

RECURSIVE TrimEnd(_)
TrimEnd(s) ==
  IF s # <<>> /\ IsSpace(s[Len(s)]) THEN TrimEnd(SubSeq(s, 1, Len(s) - 1)) ELSE s

\* String.prototype.trim
trim(s) == TrimEnd(TrimStart(s))

\* A 32-bit integer is kept as its two 16-bit halves [hi, lo] (two's
\* complement), since the model's integers are themselves 32 bits wide.
Half == 65536

\* One round of simpleHash: hash = ((hash << 5) - hash) + char; hash = hash & hash,
\* which is 31 * hash + char modulo 2^32.
HashStep(hash, char) ==
  LET lo == 31 * hash.lo + char
      hi == 31 * hash.hi + (lo \div Half)
  IN [hi |-> hi % Half, lo |-> lo % Half]

RECURSIVE HashFrom(_, _, _)
HashFrom(str, i, hash) ==
  IF i > Len(str) THEN hash
  ELSE HashFrom(str, i + 1, HashStep(hash, charCodeAt(str[i])))

\* Math.abs of a 32-bit integer: a magnitude of at most 2^31.
Abs32(hash) ==
  IF hash.hi < Half \div 2 THEN hash
  ELSE [hi |-> (Half - 1 - hash.hi) + (IF hash.lo = 0 THEN 1 ELSE 0),
        lo |-> (Half - hash.lo) % Half]

Base36Digits ==
  <<"0","1","2","3","4","5","6","7","8","9","a","b","c","d","e","f","g","h","i","j","k","l","m","n","o","p","q","r","s","t","u","v","w","x","y","z">>

\* Number.prototype.toString(36) of a magnitude.
RECURSIVE ToString36(_, _)
ToString36(n, out) ==
  LET rest == (n.hi % 36) * Half + n.lo
      q == [hi |-> n.hi \div 36, lo |-> rest \div 36]
      digits == <<Base36Digits[(rest % 36) + 1]>> \o out
  IN IF q.hi = 0 /\ q.lo = 0 THEN digits ELSE ToString36(q, digits)

simpleHash(str) == ToString36(Abs32(HashFrom(str, 1, [hi |-> 0, lo |-> 0])), <<>>)

\* The normalization inside generateCodeHash.
hashNormalized(code) ==
  normalizeNumbers(
    normalizeStrings(
      normalizeStrings(
        removeWhitespace(removeBlockComments(removeLineComments(toLowerCase(code)))),
        "\""),
      "'"))

\* The hash of the code as it is written.
generateCodeHashOfRawCode(code) == simpleHash(code)

generateCodeHash(code) == simpleHash(hashNormalized(code))

\* normalizeCode of calculateCodeSimilarity.
normalizeCode(code) ==
  trim(
    normalizeNumbers(
      normalizeStrings(
        normalizeStrings(
          collapseWhitespace(removeBlockComments(removeLineComments(toLowerCase(code)))),
          "\""),
        "'")))

RECURSIVE SplitLinesFrom(_, _, _, _)
SplitLinesFrom(s, i, cur, acc) ==
  IF i > Len(s) THEN Append(acc, cur)
  ELSE IF s[i] = "\n" THEN SplitLinesFrom(s, i + 1, <<>>, Append(acc, cur))
  ELSE SplitLinesFrom(s, i + 1, Append(cur, s[i]), acc)

\* normalized.split('\n')
splitLines(s) == SplitLinesFrom(s, 1, <<>>, <<>>)

LongerThanFive(line) == Len(line) > 5

\* The Jaccard quotient of two Sets of lines.
LineSetSimilarity(lines1, lines2) ==
  LET InLines2(line) == Includes(lines2, line)
      intersection == NewSet(SelectSeq(lines1, InLines2))
      union == NewSet(lines1 \o lines2)
  IN IF Len(union) = 0 THEN Zero ELSE Quotient(Len(intersection), Len(union))

calculateCodeSimilarity(code1, code2) ==
  LET normalized1 == normalizeCode(code1)
      normalized2 == normalizeCode(code2)
      lines1 == NewSet(SelectSeq(splitLines(normalized1), LongerThanFive))
      lines2 == NewSet(SelectSeq(splitLines(normalized2), LongerThanFive))
  IN LineSetSimilarity(lines1, lines2)

\* The cache loop of isCodeAlreadyInVault: true at the first cached snippet
\* with the candidate's hash or with a line similarity above 0.8.
RECURSIVE FoundInCache(_, _)
FoundInCache(code, cache) ==
  IF cache = <<>> THEN FALSE
  ELSE LET snippet == Head(cache)
       IN IF generateCodeHash(code) = generateCodeHash(snippet.code) THEN TRUE
          ELSE IF Greater(calculateCodeSimilarity(code, snippet.code), 4, 5) THEN TRUE
          ELSE FoundInCache(code, Tail(cache))

(***************************************************************************)
(* Inputs of the scorer: code strings made of at most MaxPieces pieces.    *)
(***************************************************************************)

MaxPieces == 2

\* Pieces of code text: an identifier in two cases, another identifier, a
\* stop word, each with a separator after it, and two word characters with
\* none (too short for a token alone, and running together with the piece
\* that follows).
Pieces ==
  { <<"f","o","o"," ">>, <<"F","o","o",";">>, <<"b","a","r","+">>,
    <<"l","e","t"," ">>, <<"_","1">> }

RECURSIVE Concatenations(_)
Concatenations(n) ==
  IF n = 0 THEN { <<>> }
  ELSE LET shorter == Concatenations(n - 1)
       IN shorter \cup { c \o p : c \in shorter, p \in Pieces }

\* "function foo() { return x + y; }"
ExampleFunctionFoo ==
  <<"f","u","n","c","t","i","o","n"," ","f","o","o","(",")"," ","{"," ","r","e","t","u","r","n"," ","x"," ","+"," ","y",";"," ","}">>

SimCodes == Concatenations(MaxPieces) \cup { ExampleFunctionFoo }

(***************************************************************************)
(* Inputs of the ranker: a query and a corpus of at most MaxCorpus         *)
(* snippets. The similarities of the queries to the corpus codes are       *)
(*                  FetchUrlJson  FetchUrlCall  FetchUrlJsonMore           *)
(*   FetchUrlJson        1            2/3           3/10                   *)
(*   FetchUrlCall       2/3            1            1/5                    *)
(*   FetchUrlJsonBody   1/2           1/3           3/13                   *)
(* so every reason band, the threshold itself and ties occur.              *)
(***************************************************************************)

MaxCorpus == 6

\* "fetch url json"
FetchUrlJson ==
  <<"f","e","t","c","h"," ","u","r","l"," ","j","s","o","n">>

\* "Fetch(URL)"
FetchUrlCall ==
  <<"F","e","t","c","h","(","U","R","L",")">>

\* "fetch url json aaa bbb ccc ddd eee fff ggg"
FetchUrlJsonMore ==
  <<"f","e","t","c","h"," ","u","r","l"," ","j","s","o","n"," ","a","a","a"," ","b","b","b"," ","c","c","c"," ","d","d","d"," ","e","e","e"," ","f","f","f"," ","g","g","g">>

\* "fetch url json header array body"
FetchUrlJsonBody ==
  <<"f","e","t","c","h"," ","u","r","l"," ","j","s","o","n"," ","h","e","a","d","e","r"," ","a","r","r","a","y"," ","b","o","d","y">>

RankCodes == { FetchUrlJson, FetchUrlCall, FetchUrlJsonMore }

RankQueries == { FetchUrlJson, FetchUrlCall, FetchUrlJsonBody }

RECURSIVE SnippetLists(_, _)
\* The lists of at most n snippets with codes from the given set; a snippet's
\* id is its place.
SnippetLists(codes, n) ==
  IF n = 0 THEN { <<>> }
  ELSE LET shorter == SnippetLists(codes, n - 1)
       IN shorter \cup
          { Append(c, [id |-> Len(c) + 1, code |-> k]) :
              c \in { d \in shorter : Len(d) = n - 1 }, k \in codes }

(***************************************************************************)
(* Inputs of tokenizeCode and getCodeContext: the codes of SimCodes, codes *)
(* of separators only, and codes with two to four tokens in common, in     *)
(* different orders and repeated.                                          *)
(***************************************************************************)

\* " \n\t"
BlankCode == <<" ", "\n", "\t">>

\* "(); {}"
SeparatorsCode == <<"(", ")", ";", " ", "{", "}">>

\* "fetch header json"
FetchHeaderJson ==
  <<"f","e","t","c","h"," ","h","e","a","d","e","r"," ","j","s","o","n">>

\* "fetch json array"
FetchJsonArray ==
  <<"f","e","t","c","h"," ","j","s","o","n"," ","a","r","r","a","y">>

\* "json fetch url body fetch"
JsonFetchUrlBodyFetch ==
  <<"j","s","o","n"," ","f","e","t","c","h"," ","u","r","l"," ","b","o","d","y"," ","f","e","t","c","h">>

\* "body url JSON fetch"
BodyUrlJsonFetch ==
  <<"b","o","d","y"," ","u","r","l"," ","J","S","O","N"," ","f","e","t","c","h">>

TokCodes == SimCodes \cup { BlankCode, SeparatorsCode, BodyUrlJsonFetch }

CtxCodes ==
  Concatenations(MaxPieces) \cup
    { FetchHeaderJson, FetchJsonArray, JsonFetchUrlBodyFetch, BodyUrlJsonFetch }

(***************************************************************************)
(* Inputs of the duplicate guard: a candidate made of at most              *)
(* MaxStatements pieces of text, or one of the examples, and a cache of at *)
(* most MaxCache snippets.                                                 *)
(***************************************************************************)

MaxStatements == 2

MaxCache == 2

\* "const x = 1;"
ConstX1 ==
  <<"c","o","n","s","t"," ","x"," ","="," ","1",";">>

\* "const   x=2;"
ConstX2 ==
  <<"c","o","n","s","t"," "," "," ","x","=","2",";">>

\* let s = "a b";
LetString ==
  <<"l","e","t"," ","s"," ","="," ","\"","a"," ","b","\"",";">>

\* LET S = "\"q";
LetEscaped ==
  <<"L","E","T"," ","S"," ","="," ","\"","\\","\"","q","\"",";">>

\* "return 2;"
Return2 ==
  <<"r","e","t","u","r","n"," ","2",";">>

\* Statements in several spellings (the second ends its line), a line
\* comment and a block comment.
Statements ==
  { ConstX1,
    <<"c","o","n","s","t"," "," "," ","x","=","2",";","\n">>,
    <<"/","/"," ","n","o","t","e"," ","7","\n">>,
    <<"/","*"," ","a","\n","b"," ","*","/">>,
    <<"R","e","t","u","r","n"," ","1",";">>,
    LetString }

RECURSIVE StatementLists(_)
StatementLists(n) ==
  IF n = 0 THEN { <<>> }
  ELSE LET shorter == StatementLists(n - 1)
       IN shorter \cup { c \o p : c \in shorter, p \in Statements }

GuardCandidates == StatementLists(MaxStatements)

GuardStored == { ConstX2, Return2, LetEscaped }

NoResult == [num |-> -1, den |-> 1]

(***************************************************************************)
(* Inputs of the capture flow: at most MaxCaptures captures, of a code     *)
(* the editor holds, while the collection holds at most MaxSnippets        *)
(* snippets and the clock (in milliseconds since activation) is at most    *)
(* MaxTime.                                                                *)
(***************************************************************************)

MaxCaptures == 2

MaxSnippets == 2

MaxTime == 60000

\* The delay of the setTimeout that empties recentlyProcessed.
ExpiryDelay == 60000

\* The step of the clock when no expiry is due sooner.
TimeStep == ExpiryDelay \div 2

\* "const total = 1; // sum"
TotalOne ==
  <<"c","o","n","s","t"," ","t","o","t","a","l"," ","="," ","1",";"," ","/","/"," ","s","u","m">>

\* "const   total=2; /* */"
TotalTwo ==
  <<"c","o","n","s","t"," "," "," ","t","o","t","a","l","=","2",";"," ","/","*"," ","*","/">>

\* Two spellings of one statement, of more than 20 characters, and a
\* shorter statement.
CaptureCodes == { TotalOne, TotalTwo, ConstX1 }

CaptureKinds == { "selection", "manual" }

\* 30 seconds between auto-captures.
captureCooldown == 30000

\* 2 second cooldown after save.
SaveCooldown == 2000

\* lastCaptureTime and lastSaveTime before the first capture and the first
\* save: 0, the epoch, on a clock that reads 0 at the activation; any time
\* of the model is later by a cooldown at least.
NeverYet == 0 - captureCooldown

\* The draft of the add form as it is created and reset: title '', code ''.
EmptyDraft == [title |-> "", code |-> <<>>]

NoSnippet == [id |-> 0, code |-> <<>>]

\* No request served yet.
NoRequest == [route |-> "none", status |-> 0]

VARIABLES simPc, simA, simB, simOut, rankPc, rankQuery, rankCorpus, rankOut,
          guardPc, guardCode, guardCache, guardServer, guardVerdict,
          recentlyProcessed, expiries, existingSnippetsCache,
          snippetsCollection, captures, now,
          tokPc, tokCode, tokOut, ctxPc, ctxSnippetCode, ctxCurrentCode, ctxOut,
          objectIds, lastRequest,
          uiSnippets, backendStatus, aiSuggestions, showAIPanel, isAnalyzing, analyses, healthPc, loadPc,
          lastCaptureTime, lastSaveTime, changeCalls,
          showAddForm, newSnippet, adds,
          loads

simVars == <<simPc, simA, simB, simOut>>

rankVars == <<rankPc, rankQuery, rankCorpus, rankOut>>

guardVars == <<guardPc, guardCode, guardCache, guardServer, guardVerdict>>

vaultVars == <<recentlyProcessed, expiries, existingSnippetsCache,
               snippetsCollection, captures, now>>

textVars == <<tokPc, tokCode, tokOut, ctxPc, ctxSnippetCode, ctxCurrentCode, ctxOut>>

serverVars == <<objectIds, lastRequest>>

uiVars == <<uiSnippets, backendStatus, aiSuggestions, showAIPanel, isAnalyzing, analyses, healthPc, loadPc>>

handlerVars == <<lastCaptureTime, lastSaveTime, changeCalls>>

formVars == <<showAddForm, newSnippet, adds>>

reloadVars == <<loads>>

vars == <<simVars, rankVars, guardVars, vaultVars, textVars, serverVars, uiVars, handlerVars, formVars, reloadVars>>

SimIdle ==
  /\ simPc = "idle"
  /\ simA = <<>>
  /\ simB = <<>>
  /\ simOut = NoResult

RankIdle ==
  /\ rankPc = "idle"
  /\ rankQuery = <<>>
  /\ rankCorpus = <<>>
  /\ rankOut = <<>>

GuardIdle ==
  /\ guardPc = "idle"
  /\ guardCode = <<>>
  /\ guardCache = <<>>
  /\ guardServer = "not asked"
  /\ guardVerdict = FALSE

\* The extension just activated, nothing captured, an empty collection.
VaultIdle ==
  /\ recentlyProcessed = {}
  /\ expiries = <<>>
  /\ existingSnippetsCache = <<>>
  /\ snippetsCollection = <<>>
  /\ captures = <<>>
  /\ now = 0

\* tokenizeCode and getCodeContext not in use.
TextIdle ==
  /\ tokPc = "idle"
  /\ tokCode = <<>>
  /\ tokOut = <<>>
  /\ ctxPc = "idle"
  /\ ctxSnippetCode = <<>>
  /\ ctxCurrentCode = <<>>
  /\ ctxOut = <<>>

\* The server has served no request.
ServerIdle ==
  /\ objectIds = 0
  /\ lastRequest = NoRequest

\* The desktop application as mounted: the state of useState, the health check and the first load under way, analyzeCodeWithAI never called.
UiIdle ==
  /\ uiSnippets = <<>>
  /\ backendStatus = "checking"
  /\ aiSuggestions = <<>>
  /\ showAIPanel = TRUE
  /\ isAnalyzing = FALSE
  /\ analyses = <<>>
  /\ healthPc = "pending"
  /\ loadPc = "pending"

\* The extension as activated: no change event and no save handled.
HandlerIdle ==
  /\ lastCaptureTime = NeverYet
  /\ lastSaveTime = NeverYet
  /\ changeCalls = <<>>

\* The add form of the application: closed, its draft empty, addSnippet never called.
FormIdle ==
  /\ showAddForm = FALSE
  /\ newSnippet = EmptyDraft
  /\ adds = <<>>

\* No call of loadExistingSnippets is in flight.
ReloadIdle ==
  loads = <<>>

(***************************************************************************)
(* SpecEngine: the pure functions of the server's similarity engine. An    *)
(* initial state holds either a pair of codes for calculateSimilarity or a *)
(* query and a corpus for analyzeSimilarity; the action applies the        *)
(* function.                                                               *)
(***************************************************************************)

SimInit ==
  /\ simPc = "start"
  /\ simA \in SimCodes
  /\ simB \in SimCodes
  /\ simOut = NoResult
  /\ RankIdle
  /\ GuardIdle
  /\ VaultIdle
  /\ TextIdle
  /\ ServerIdle
  /\ UiIdle
  /\ HandlerIdle
  /\ FormIdle
  /\ ReloadIdle

RankInit ==
  /\ rankPc = "start"
  /\ rankQuery \in RankQueries
  /\ rankCorpus \in SnippetLists(RankCodes, MaxCorpus)
  /\ rankOut = <<>>
  /\ SimIdle
  /\ GuardIdle
  /\ VaultIdle
  /\ TextIdle
  /\ ServerIdle
  /\ UiIdle
  /\ HandlerIdle
  /\ FormIdle
  /\ ReloadIdle

EngineInit == SimInit \/ RankInit

CalculateSimilarity ==
  /\ simPc = "start"
  /\ simOut' = calculateSimilarity(simA, simB)
  /\ simPc' = "done"
  /\ UNCHANGED <<simA, simB, rankVars, guardVars, vaultVars, textVars, serverVars, uiVars, handlerVars, formVars, reloadVars>>

AnalyzeSimilarity ==
  /\ rankPc = "start"
  /\ rankOut' = analyzeSimilarity(rankQuery, rankCorpus)
  /\ rankPc' = "done"
  /\ UNCHANGED <<rankQuery, rankCorpus, simVars, guardVars, vaultVars, textVars, serverVars, uiVars, handlerVars, formVars, reloadVars>>

EngineNext == CalculateSimilarity \/ AnalyzeSimilarity

SpecEngine == EngineInit /\ [][EngineNext]_vars

(***************************************************************************)
(* Claims on the similarity engine (SpecEngine)                            *)
(***************************************************************************)

TokenSet(code) == Range(tokenizeCode(code))

\* The Jaccard index of two finite sets, 0 when both are empty.
Jaccard(A, B) ==
  IF A \cup B = {} THEN Zero
  ELSE Quotient(Cardinality(A \cap B), Cardinality(A \cup B))

\* Where the suggestions name the snippet.
Places(suggestions, snippet) ==
  { j \in DOMAIN suggestions : suggestions[j].snippet = snippet }

\* The score the ranker gives corpus snippet i.
Score(i) == calculateSimilarity(rankQuery, rankCorpus[i].code)

\* C1: calculateSimilarity returns |A \cap B| / |A \cup B| of the token SETS
\* of the two codes (a repeated token changes nothing), a value in [0, 1],
\* and exactly 0 when both codes tokenize to nothing.
C1_JaccardOfTokenSets ==
  simPc = "done" =>
    /\ simOut = Jaccard(TokenSet(simA), TokenSet(simB))
    /\ simOut.den > 0 /\ 0 <= simOut.num /\ simOut.num <= simOut.den
    /\ (tokenizeCode(simA) = <<>> /\ tokenizeCode(simB) = <<>>) => simOut = Zero

\* A scored pair in which one code repeats a token and the score is neither
\* 0 nor 1.
C1_Witness ==
  /\ simPc = "done"
  /\ Len(tokenizeCode(simA)) > Cardinality(TokenSet(simA))
  /\ simOut # Zero /\ simOut # One

\* C2: analyzeSimilarity returns at most 5 suggestions, each of a corpus
\* snippet with confidence (its score) strictly above 0.3; a snippet scoring
\* 0.3 or less is not in the output.
C2_AtMostFiveAboveThreshold ==
  rankPc = "done" =>
    /\ Len(rankOut) <= 5
    /\ \A j \in DOMAIN rankOut :
         /\ \E i \in DOMAIN rankCorpus : rankOut[j].snippet = rankCorpus[i]
         /\ rankOut[j].confidence = calculateSimilarity(rankQuery, rankOut[j].snippet.code)
         /\ rankOut[j].confidence.num * 10 > 3 * rankOut[j].confidence.den
    /\ \A i \in DOMAIN rankCorpus :
         Score(i).num * 10 <= 3 * Score(i).den => Places(rankOut, rankCorpus[i]) = {}

\* Five suggestions returned from a corpus that also holds a snippet scoring
\* exactly 0.3.
C2_Witness ==
  /\ rankPc = "done"
  /\ Len(rankOut) = 5
  /\ \E i \in DOMAIN rankCorpus : Score(i) = [num |-> 3, den |-> 10]

\* C3: the output is in non-increasing order of confidence, suggestions of
\* equal confidence are in corpus order, and the suggestions cut off are the
\* last of that order: none has a higher confidence than a kept one, and one
\* that ties with a kept one comes later in the corpus.
C3_SortedStableTopFive ==
  rankPc = "done" =>
    /\ \A j, k \in DOMAIN rankOut :
         j < k =>
           /\ ~GreaterQ(rankOut[k].confidence, rankOut[j].confidence)
           /\ rankOut[j].confidence = rankOut[k].confidence
                => rankOut[j].snippet.id < rankOut[k].snippet.id
    /\ \A i \in DOMAIN rankCorpus :
         (PassesThreshold(Score(i)) /\ Places(rankOut, rankCorpus[i]) = {}) =>
           /\ Len(rankOut) = 5
           /\ \A j \in DOMAIN rankOut :
                /\ ~GreaterQ(Score(i), rankOut[j].confidence)
                /\ rankOut[j].confidence = Score(i) => rankOut[j].snippet.id < i

\* An output with a tie, with two different confidences, and with a
\* suggestion cut off.
C3_Witness ==
  /\ rankPc = "done"
  /\ \E j, k \in DOMAIN rankOut :
       j < k /\ rankOut[j].confidence = rankOut[k].confidence
  /\ \E j, k \in DOMAIN rankOut : GreaterQ(rankOut[j].confidence, rankOut[k].confidence)
  /\ \E i \in DOMAIN rankCorpus :
       PassesThreshold(Score(i)) /\ Places(rankOut, rankCorpus[i]) = {}

\* C9: calculateSimilarity(a, b) = calculateSimilarity(b, a).
C9_Symmetric ==
  simPc = "done" => simOut = calculateSimilarity(simB, simA)

\* A scored pair of codes with different token sets that share a token.
C9_Witness ==
  /\ simPc = "done"
  /\ TokenSet(simA) # TokenSet(simB)
  /\ Cardinality(TokenSet(simA)) # Cardinality(TokenSet(simB))
  /\ simOut # Zero

\* The corpus snippets before place i that score 1.
FullScoreBefore(i) == { h \in 1..(i - 1) : Score(h) = One }

\* C10: a code with a token scores exactly 1 against itself, and a corpus
\* snippet that holds the query's code is returned, unless five snippets
\* scoring 1 come before it in the corpus, with confidence 1 and the reason
\* "Very similar implementation".
C10_SelfSimilarity ==
  /\ (simPc = "done" /\ simA = simB /\ tokenizeCode(simA) # <<>>) => simOut = One
  /\ rankPc = "done" =>
       \A i \in DOMAIN rankCorpus :
         (rankCorpus[i].code = rankQuery /\ tokenizeCode(rankQuery) # <<>>) =>
           /\ Score(i) = One
           /\ Cardinality(FullScoreBefore(i)) < 5 =>
                \E j \in DOMAIN rankOut :
                  /\ rankOut[j].snippet = rankCorpus[i]
                  /\ rankOut[j].confidence = One
                  /\ rankOut[j].reason = "Very similar implementation"

\* The query's own code stored after a snippet of another code, and returned.
C10_Witness ==
  /\ rankPc = "done"
  /\ \E i \in DOMAIN rankCorpus :
       /\ rankCorpus[i].code = rankQuery
       /\ \E h \in 1..(i - 1) : rankCorpus[h].code # rankQuery
       /\ \E j \in DOMAIN rankOut :
            rankOut[j].snippet = rankCorpus[i] /\ rankOut[j].reason = "Very similar implementation"

\* C13: every suggestion returned carries "Very similar implementation" when
\* its confidence is above 0.7, else "Similar logic and structure" when it
\* is above 0.5, else "Related code patterns"; none carries "Some common
\* elements".
C13_ReasonFromThreeBands ==
  rankPc = "done" =>
    \A j \in DOMAIN rankOut :
      LET c == rankOut[j].confidence
      IN /\ rankOut[j].reason =
              IF c.num * 10 > 7 * c.den THEN "Very similar implementation"
              ELSE IF c.num * 2 > c.den THEN "Similar logic and structure"
              ELSE "Related code patterns"
         /\ rankOut[j].reason # "Some common elements"

\* An output with a suggestion of confidence exactly 0.5, labelled "Related
\* code patterns", from a corpus with a snippet scoring exactly 0.3, which is
\* not returned.
C13_Witness ==
  /\ rankPc = "done"
  /\ \E j \in DOMAIN rankOut :
       /\ rankOut[j].confidence = [num |-> 1, den |-> 2]
       /\ rankOut[j].reason = "Related code patterns"
  /\ \E i \in DOMAIN rankCorpus :
       /\ getSimilarityReason(Score(i)) = "Some common elements"
       /\ Score(i) # Zero
       /\ Places(rankOut, rankCorpus[i]) = {}

(***************************************************************************)
(* SpecGuard: isCodeAlreadyInVault on every candidate and cache. The       *)
(* answer of the server's analysis, asked only when the cache has no       *)
(* match, is any of: no answer, a suggestion with confidence above 0.8,    *)
(* none.                                                                   *)
(***************************************************************************)

ServerAnswers == { "unreachable", "similar", "unrelated" }

GuardInit ==
  /\ guardPc = "start"
  /\ guardCode \in GuardCandidates
  /\ guardCache \in SnippetLists(GuardStored, MaxCache)
  /\ guardServer = "not asked"
  /\ guardVerdict = FALSE
  /\ SimIdle
  /\ RankIdle
  /\ VaultIdle
  /\ TextIdle
  /\ ServerIdle
  /\ UiIdle
  /\ HandlerIdle
  /\ FormIdle
  /\ ReloadIdle

IsCodeAlreadyInVault(answer) ==
  /\ guardPc = "start"
  /\ IF FoundInCache(guardCode, guardCache)
     THEN guardVerdict' = TRUE /\ guardServer' = "not asked"
     ELSE guardVerdict' = (answer = "similar") /\ guardServer' = answer
  /\ guardPc' = "done"
  /\ UNCHANGED <<guardCode, guardCache, simVars, rankVars, vaultVars, textVars, serverVars, uiVars, handlerVars, formVars, reloadVars>>

GuardNext == \E answer \in ServerAnswers : IsCodeAlreadyInVault(answer)

SpecGuard == GuardInit /\ [][GuardNext]_vars

(***************************************************************************)
(* Claims on the duplicate guard (SpecGuard)                               *)
(***************************************************************************)

\* C4: a candidate whose code, lower-cased, stripped of comments and of all
\* whitespace, with string contents and standalone integers replaced, equals
\* that of a cached snippet is declared a duplicate by the cache loop of
\* isCodeAlreadyInVault, without asking the server; "const x = 1;" and
\* "const   x=2;" are such a pair.
C4_ExactFingerprintIsDuplicate ==
  /\ hashNormalized(ConstX1) = hashNormalized(ConstX2)
  /\ guardPc = "done" =>
       \A i \in DOMAIN guardCache :
         hashNormalized(guardCode) = hashNormalized(guardCache[i].code) =>
           guardVerdict = TRUE /\ guardServer = "not asked"

\* "const x = 1;" declared a duplicate of "const   x=2;", which is cached
\* behind a snippet of another fingerprint.
C4_Witness ==
  /\ guardPc = "done"
  /\ guardCode = ConstX1
  /\ Len(guardCache) = 2
  /\ guardCache[2].code = ConstX2
  /\ hashNormalized(guardCache[1].code) # hashNormalized(ConstX1)
  /\ guardVerdict = TRUE

RECURSIVE CollapseKeepingNewlinesFrom(_, _, _)
CollapseKeepingNewlinesFrom(s, i, out) ==
  IF i > Len(s) THEN out
  ELSE IF IsSpace(s[i]) /\ s[i] # "\n"
       THEN CollapseKeepingNewlinesFrom(s, i + 1,
              IF i > 1 /\ IsSpace(s[i - 1]) /\ s[i - 1] # "\n" THEN out ELSE Append(out, " "))
       ELSE CollapseKeepingNewlinesFrom(s, i + 1, Append(out, s[i]))

\* The normalization C5 describes: that of normalizeCode, with the runs of
\* whitespace other than newlines collapsed and the newlines kept.
NormalizedKeepingNewlines(code) ==
  trim(
    normalizeNumbers(
      normalizeStrings(
        normalizeStrings(
          CollapseKeepingNewlinesFrom(
            removeBlockComments(removeLineComments(toLowerCase(code))), 1, <<>>),
          "\""),
        "'")))

\* The set of the lines longer than 5 characters of that normalization.
KeptLines(code) ==
  { line \in Range(splitLines(NormalizedKeepingNewlines(code))) : Len(line) > 5 }

\* C5 (as claimed): calculateCodeSimilarity is the Jaccard similarity of the
\* two sets of normalized lines longer than 5 characters, the newlines not
\* collapsed, and a candidate scoring above 0.8 against a cached snippet (9
\* of 10 lines shared: 0.9) is declared a duplicate.
C5_LineSetJaccard ==
  guardPc = "done" =>
    \A i \in DOMAIN guardCache :
      LET claimed == Jaccard(KeptLines(guardCode), KeptLines(guardCache[i].code))
      IN /\ calculateCodeSimilarity(guardCode, guardCache[i].code) = claimed
         /\ Greater(claimed, 4, 5) => guardVerdict = TRUE

(***************************************************************************)
(* Spec: the capture flow of the editor extension against the server. A    *)
(* capture is one run of captureSelectionOnly or of captureCurrentCode; it *)
(* stops at each await (the analysis request, the two input boxes, the     *)
(* create request) and the other captures, the server's handlers, the      *)
(* expiries and another client's create requests run in between.           *)
(***************************************************************************)

Min(a, b) == IF a < b THEN a ELSE b

Reverse(s) == [i \in 1..Len(s) |-> s[Len(s) + 1 - i]]

isDuplicateCode(codeOrHash) == codeOrHash \in recentlyProcessed

\* The membership test of saveSnippetToVault with the raw code, as the one
\* of processCodeCapture.
RecentlyCapturedRaw(code) == isDuplicateCode(code)

\* The membership test of saveSnippetToVault left out.
RecentlyCapturedNever(code) == FALSE

\* The membership test of saveSnippetToVault, on the fingerprint.
RecentlyCaptured(code) == isDuplicateCode(generateCodeHash(code))

\* suggestions.some(s => s.confidence > 0.8)
HighlySimilar(suggestions) ==
  \E j \in DOMAIN suggestions : Greater(suggestions[j].confidence, 4, 5)

\* insertOne and the created snippet of POST /api/snippets.
CreatedSnippet(code) == [id |-> Len(snippetsCollection) + 1, code |-> code]

Finished(c, outcome) == [c EXCEPT !.pc = "done", !.outcome = outcome]

\* saveSnippetToVault has returned and its caller goes on, whatever the
\* save did: processCodeCapture shows 'Captured file' when isFile, and
\* captureCurrentCode shows nothing.
Returned(c, outcome) ==
  [Finished(c, outcome) EXCEPT !.notified = (c.kind = "file")]

\* saveSnippetToVault without recentlyProcessed.add: the request is sent
\* and the fingerprint is not recorded.
SaveSnippetToVaultUnmarked(p, checked) ==
  LET c == [captures[p] EXCEPT !.check = checked]
      seen == IF c.codeHash \in recentlyProcessed THEN "in" ELSE "out"
  IN IF RecentlyCaptured(c.code)
     THEN /\ captures' = [captures EXCEPT
                            ![p] = Returned([c EXCEPT !.window = seen], "recently captured")]
          /\ UNCHANGED <<recentlyProcessed, expiries>>
     ELSE /\ UNCHANGED <<recentlyProcessed, expiries>>
          /\ captures' = [captures EXCEPT
                            ![p] = [c EXCEPT !.pc = "post", !.resp = "pending",
                                             !.window = seen, !.sentAt = now]]

\* saveSnippetToVault up to its request: a fingerprint in recentlyProcessed
\* ends the save; otherwise the fingerprint is added, its removal is
\* scheduled and the create request is sent. The fields window and sentAt
\* record whether the fingerprint was in the set, and when the request left.
SaveSnippetToVault(p, checked) ==
  LET c == [captures[p] EXCEPT !.check = checked]
      seen == IF c.codeHash \in recentlyProcessed THEN "in" ELSE "out"
  IN IF RecentlyCaptured(c.code)
     THEN /\ captures' = [captures EXCEPT
                            ![p] = Returned([c EXCEPT !.window = seen], "recently captured")]
          /\ UNCHANGED <<recentlyProcessed, expiries>>
     ELSE /\ recentlyProcessed' = recentlyProcessed \cup { c.codeHash }
          /\ expiries' = Append(expiries, [hash |-> c.codeHash, due |-> now + ExpiryDelay])
          /\ captures' = [captures EXCEPT
                            ![p] = [c EXCEPT !.pc = "post", !.resp = "pending",
                                             !.window = seen, !.sentAt = now]]

\* processCodeCapture and captureCurrentCode up to the first await of
\* isCodeAlreadyInVault: the comparison with the cache. The field check
\* records which check decided last.
BeginCapture(kind, code) ==
  LET c == [kind |-> kind, code |-> code, codeHash |-> generateCodeHash(code),
            pc |-> "analyze", resp |-> "pending", data |-> NoSnippet,
            outcome |-> "", window |-> "unchecked", sentAt |-> -1,
            check |-> "cache", notified |-> FALSE]
  IN captures' = Append(captures,
                   IF FoundInCache(code, existingSnippetsCache)
                   THEN [Finished(c, "already in vault") EXCEPT !.resp = "none"]
                   ELSE c)

\* captureSelectionOnly or captureCurrentCode is called, whatever calls it.
StartCapture(kind, code) ==
  /\ Len(captures) < MaxCaptures
  /\ kind = "selection" => Len(code) > 20
  /\ BeginCapture(kind, code)
  /\ UNCHANGED <<recentlyProcessed, expiries, existingSnippetsCache,
                 snippetsCollection, now, simVars, rankVars, guardVars, textVars, serverVars,
                 uiVars, handlerVars, formVars, reloadVars>>

\* The places of the calls of the change handler that await capture p.
Awaiting(p) ==
  { k \in DOMAIN changeCalls :
      changeCalls[k].capture = p /\ changeCalls[k].pc = "awaiting" }

\* The capture a call of the change handler awaits has returned:
\* lastCaptureTime = Date.now().
HandlerResumes(p) ==
  IF Awaiting(p) # {} /\ captures'[p].pc = "done"
  THEN /\ lastCaptureTime' = now
       /\ changeCalls' = [k \in DOMAIN changeCalls |->
                            IF k \in Awaiting(p)
                            THEN [changeCalls[k] EXCEPT !.pc = "returned"]
                            ELSE changeCalls[k]]
  ELSE UNCHANGED <<lastCaptureTime, changeCalls>>

\* Neither of the two early returns of the change handler is taken: not
\* just saved, and not throttled.
PassesThrottle ==
  /\ now - lastSaveTime >= SaveCooldown
  /\ now - lastCaptureTime >= captureCooldown

\* onDidChangeTextDocument with a selection that is not empty:
\* captureSelectionOnly, which captures a selection of more than 20
\* characters, and lastCaptureTime = Date.now() once it has returned. An
\* entry of changeCalls is a call that captures: its capture, when it
\* started and where it is.
ChangeEvent(code) ==
  /\ code # <<>>
  /\ PassesThrottle
  /\ IF Len(code) > 20
     THEN /\ Len(captures) < MaxCaptures
          /\ BeginCapture("selection", code)
          /\ LET p == Len(captures) + 1
                 returned == captures'[p].pc = "done"
             IN /\ changeCalls' =
                     Append(changeCalls,
                            [ capture |-> p, startedAt |-> now,
                              pc |-> IF returned THEN "returned" ELSE "awaiting" ])
                /\ lastCaptureTime' = IF returned THEN now ELSE lastCaptureTime
     ELSE /\ lastCaptureTime' = now
          /\ UNCHANGED <<captures, changeCalls>>
  /\ UNCHANGED <<lastSaveTime, recentlyProcessed, expiries, existingSnippetsCache,
                 snippetsCollection, now, simVars, rankVars, guardVars, textVars, serverVars,
                 uiVars, formVars, reloadVars>>

\* onDidSaveTextDocument: lastSaveTime = Date.now(), then captureEntireFile,
\* which captures nothing of a file of 100 characters or less.
SaveEvent(code) ==
  /\ Len(code) <= 100
  /\ lastSaveTime' = now
  /\ UNCHANGED <<lastCaptureTime, changeCalls, recentlyProcessed, expiries,
                 existingSnippetsCache, snippetsCollection, captures, now, simVars, rankVars,
                 guardVars, textVars, serverVars, uiVars, formVars, reloadVars>>

\* POST /api/ai/analyze, and what the client reads in its answer.
ServerAnalyze(p) ==
  /\ p \in DOMAIN captures
  /\ captures[p].pc = "analyze" /\ captures[p].resp = "pending"
  /\ captures' = [captures EXCEPT ![p].resp =
       IF captures[p].code = <<>> THEN "error"
       ELSE IF HighlySimilar(analyzeSimilarity(captures[p].code, Reverse(snippetsCollection)))
            THEN "similar" ELSE "unrelated"]
  /\ UNCHANGED <<recentlyProcessed, expiries, existingSnippetsCache,
                 snippetsCollection, now, simVars, rankVars, guardVars, textVars, serverVars, uiVars, handlerVars, formVars, reloadVars>>

\* A request that gets no answer (the server is not running, or the timeout
\* of 10 seconds).
RequestFails(p) ==
  /\ p \in DOMAIN captures
  /\ captures[p].pc \in { "analyze", "post" } /\ captures[p].resp = "pending"
  /\ captures' = [captures EXCEPT ![p].resp = "error"]
  /\ UNCHANGED <<recentlyProcessed, expiries, existingSnippetsCache,
                 snippetsCollection, now, simVars, rankVars, guardVars, textVars, serverVars, uiVars, handlerVars, formVars, reloadVars>>

\* A request that failed taken as a duplicate found.
AlreadyInVaultOrUnreachable(resp) == resp \in { "similar", "error" }

\* What isCodeAlreadyInVault returns after its request: true when the server
\* found a highly similar snippet, false when it found none and when the
\* request failed.
AlreadyInVault(resp) == resp = "similar"

\* The rest of isCodeAlreadyInVault and what its caller does next. A request
\* that failed is caught ("Server AI check failed, using cache only") and
\* the check returns false.
AnalyzeReturns(p) ==
  /\ p \in DOMAIN captures
  /\ captures[p].pc = "analyze" /\ captures[p].resp # "pending"
  /\ LET checked == IF captures[p].resp = "error" THEN "cache only" ELSE "server"
     IN IF AlreadyInVault(captures[p].resp)
        THEN /\ captures' = [captures EXCEPT
                               ![p] = Finished([captures[p] EXCEPT !.check = checked],
                                               "already in vault")]
             /\ UNCHANGED <<recentlyProcessed, expiries>>
        ELSE IF captures[p].kind = "manual"
        THEN /\ captures' = [captures EXCEPT ![p].pc = "title", ![p].check = checked]
             /\ UNCHANGED <<recentlyProcessed, expiries>>
        ELSE IF isDuplicateCode(captures[p].code)
        THEN /\ captures' = [captures EXCEPT
                               ![p] = Finished([captures[p] EXCEPT !.check = checked],
                                               "recently processed")]
             /\ UNCHANGED <<recentlyProcessed, expiries>>
        ELSE SaveSnippetToVault(p, checked)
  /\ HandlerResumes(p)
  /\ UNCHANGED <<existingSnippetsCache, snippetsCollection, now, lastSaveTime,
                 simVars, rankVars, guardVars, textVars, serverVars, uiVars, formVars, reloadVars>>

\* The title box dismissed after the fingerprint was recorded.
TitleEnteredMarking(p, title) ==
  /\ p \in DOMAIN captures
  /\ captures[p].pc = "title"
  /\ captures' = [captures EXCEPT ![p] =
       IF title = "" THEN Finished(captures[p], "cancelled")
       ELSE [captures[p] EXCEPT !.pc = "description"]]
  /\ recentlyProcessed' = recentlyProcessed \cup { captures[p].codeHash }
  /\ UNCHANGED <<expiries, existingSnippetsCache,
                 snippetsCollection, now, simVars, rankVars, guardVars, textVars, serverVars, uiVars, handlerVars, formVars, reloadVars>>

\* The title box of captureCurrentCode: a title, or none.
TitleEntered(p, title) ==
  /\ p \in DOMAIN captures
  /\ captures[p].pc = "title"
  /\ captures' = [captures EXCEPT ![p] =
       IF title = "" THEN Finished(captures[p], "cancelled")
       ELSE [captures[p] EXCEPT !.pc = "description"]]
  /\ UNCHANGED <<recentlyProcessed, expiries, existingSnippetsCache,
                 snippetsCollection, now, simVars, rankVars, guardVars, textVars, serverVars, uiVars, handlerVars, formVars, reloadVars>>

\* The description box of captureCurrentCode, then saveSnippetToVault.
DescriptionEntered(p) ==
  /\ p \in DOMAIN captures
  /\ captures[p].pc = "description"
  /\ SaveSnippetToVault(p, captures[p].check)
  /\ UNCHANGED <<existingSnippetsCache, snippetsCollection, now,
                 simVars, rankVars, guardVars, textVars, serverVars, uiVars, handlerVars, formVars, reloadVars>>

\* POST /api/snippets for a capture; the answer reaches the client or not.
ServerCreate(p, delivered) ==
  /\ p \in DOMAIN captures
  /\ captures[p].pc = "post" /\ captures[p].resp = "pending"
  /\ Len(snippetsCollection) < MaxSnippets
  /\ IF captures[p].code = <<>>
     THEN /\ captures' = [captures EXCEPT ![p].resp = "error"]
          /\ UNCHANGED snippetsCollection
     ELSE /\ snippetsCollection' = Append(snippetsCollection, CreatedSnippet(captures[p].code))
          /\ captures' = [captures EXCEPT ![p] =
               IF delivered
               THEN [captures[p] EXCEPT !.resp = "created",
                                        !.data = CreatedSnippet(captures[p].code)]
               ELSE [captures[p] EXCEPT !.resp = "error"]]
  /\ UNCHANGED <<recentlyProcessed, expiries, existingSnippetsCache, now,
                 simVars, rankVars, guardVars, textVars, serverVars, uiVars, handlerVars, formVars, reloadVars>>

\* The rest of saveSnippetToVault.
SaveReturns(p) ==
  /\ p \in DOMAIN captures
  /\ captures[p].pc = "post" /\ captures[p].resp # "pending"
  /\ IF captures[p].resp = "created"
     THEN /\ existingSnippetsCache' = <<captures[p].data>> \o existingSnippetsCache
          /\ captures' = [captures EXCEPT ![p] = Returned(captures[p], "saved")]
     ELSE /\ captures' = [captures EXCEPT ![p] = Returned(captures[p], "failed")]
          /\ UNCHANGED existingSnippetsCache
  /\ HandlerResumes(p)
  /\ UNCHANGED <<recentlyProcessed, expiries, snippetsCollection, now, lastSaveTime,
                 simVars, rankVars, guardVars, textVars, serverVars, uiVars, formVars, reloadVars>>

\* The callback of setTimeout: recentlyProcessed.delete(codeHash).
Expire ==
  /\ expiries # <<>>
  /\ Head(expiries).due <= now
  /\ recentlyProcessed' = recentlyProcessed \ { Head(expiries).hash }
  /\ expiries' = Tail(expiries)
  /\ UNCHANGED <<existingSnippetsCache, snippetsCollection, captures, now,
                 simVars, rankVars, guardVars, textVars, serverVars, uiVars, handlerVars, formVars, reloadVars>>

\* Time passes, up to the next expiry.
Tick ==
  /\ now < MaxTime
  /\ expiries # <<>> => Head(expiries).due > now
  /\ now' = Min(MaxTime, Min(now + TimeStep,
                             IF expiries = <<>> THEN MaxTime ELSE Head(expiries).due))
  /\ UNCHANGED <<recentlyProcessed, expiries, existingSnippetsCache,
                 snippetsCollection, captures, simVars, rankVars, guardVars, textVars, serverVars, uiVars, handlerVars, formVars, reloadVars>>

\* POST /api/snippets from another client (the desktop application).
DirectCreate(code) ==
  /\ Len(snippetsCollection) < MaxSnippets
  /\ code # <<>>
  /\ snippetsCollection' = Append(snippetsCollection, CreatedSnippet(code))
  /\ UNCHANGED <<recentlyProcessed, expiries, existingSnippetsCache, captures, now,
                 simVars, rankVars, guardVars, textVars, serverVars, uiVars, handlerVars, formVars, reloadVars>>

Init == VaultIdle /\ SimIdle /\ RankIdle /\ GuardIdle /\ TextIdle /\ ServerIdle /\ UiIdle /\ HandlerIdle /\ FormIdle /\ ReloadIdle

Next ==
  \/ \E kind \in CaptureKinds, code \in CaptureCodes : StartCapture(kind, code)
  \/ \E p \in 1..MaxCaptures : ServerAnalyze(p)
  \/ \E p \in 1..MaxCaptures : RequestFails(p)
  \/ \E p \in 1..MaxCaptures : AnalyzeReturns(p)
  \/ \E p \in 1..MaxCaptures, title \in { "", "Selection from vault.ts" } :
       TitleEntered(p, title)
  \/ \E p \in 1..MaxCaptures : DescriptionEntered(p)
  \/ \E p \in 1..MaxCaptures, delivered \in BOOLEAN : ServerCreate(p, delivered)
  \/ \E p \in 1..MaxCaptures : SaveReturns(p)
  \/ Expire
  \/ Tick
  \/ \E code \in CaptureCodes : DirectCreate(code)

Spec == Init /\ [][Next]_vars

(***************************************************************************)
(* SpecHandler: the automatic captures alone. The selections are captured  *)
(* by the handler of onDidChangeTextDocument with its throttle, and files  *)
(* are saved; no command is run and no other client writes.                *)
(***************************************************************************)

HandlerNext ==
  \/ \E code \in CaptureCodes : ChangeEvent(code)
  \/ \E code \in CaptureCodes : SaveEvent(code)
  \/ \E p \in 1..MaxCaptures : ServerAnalyze(p)
  \/ \E p \in 1..MaxCaptures : RequestFails(p)
  \/ \E p \in 1..MaxCaptures : AnalyzeReturns(p)
  \/ \E p \in 1..MaxCaptures, delivered \in BOOLEAN : ServerCreate(p, delivered)
  \/ \E p \in 1..MaxCaptures : SaveReturns(p)
  \/ Expire
  \/ Tick

SpecHandler == Init /\ [][HandlerNext]_vars

(***************************************************************************)
(* SpecFile: the captures of saved files. processCodeCapture is called     *)
(* with isFile = true. captureEntireFile calls it with the text of a file  *)
(* of more than 100 characters; processCodeCapture and saveSnippetToVault  *)
(* do not read the length of the code, and the codes here are the ones of  *)
(* CaptureCodes.                                                           *)
(***************************************************************************)

\* processCodeCapture(code, language, title, serverUrl, isFile) up to the
\* first await of isCodeAlreadyInVault.
ProcessCodeCapture(code, isFile) ==
  /\ Len(captures) < MaxCaptures
  /\ code # <<>>
  /\ BeginCapture(IF isFile THEN "file" ELSE "selection", code)
  /\ UNCHANGED <<recentlyProcessed, expiries, existingSnippetsCache,
                 snippetsCollection, now, simVars, rankVars, guardVars, textVars, serverVars,
                 uiVars, handlerVars, formVars, reloadVars>>

FileNext ==
  \/ \E code \in CaptureCodes : ProcessCodeCapture(code, TRUE)
  \/ \E p \in 1..MaxCaptures : ServerAnalyze(p)
  \/ \E p \in 1..MaxCaptures : RequestFails(p)
  \/ \E p \in 1..MaxCaptures : AnalyzeReturns(p)
  \/ \E p \in 1..MaxCaptures, delivered \in BOOLEAN : ServerCreate(p, delivered)
  \/ \E p \in 1..MaxCaptures : SaveReturns(p)
  \/ Expire
  \/ Tick

SpecFile == Init /\ [][FileNext]_vars

(***************************************************************************)
(* SpecCache: selections are captured while the cache is reloaded, at      *)
(* activation or by the command codeVault.refreshCache.                    *)
(***************************************************************************)

MaxLoads == 2

\* loadExistingSnippets up to its await: GET /api/snippets is sent.
LoadExistingSnippets ==
  /\ Len(loads) < MaxLoads
  /\ loads' = Append(loads, [pc |-> "sent", data |-> <<>>])
  /\ UNCHANGED <<vaultVars, simVars, rankVars, guardVars, textVars, serverVars,
                 uiVars, handlerVars, formVars>>

\* GET /api/snippets answers with the collection, the newest snippet first.
ServerList(k) ==
  /\ k \in DOMAIN loads
  /\ loads[k].pc = "sent"
  /\ loads' = [loads EXCEPT ![k] = [pc |-> "served", data |-> Reverse(snippetsCollection)]]
  /\ UNCHANGED <<vaultVars, simVars, rankVars, guardVars, textVars, serverVars,
                 uiVars, handlerVars, formVars>>

\* GET /api/snippets gets no answer: the catch block of loadExistingSnippets.
LoadFails(k) ==
  /\ k \in DOMAIN loads
  /\ loads[k].pc = "sent"
  /\ loads' = [loads EXCEPT ![k] = [pc |-> "done", data |-> <<>>]]
  /\ UNCHANGED <<vaultVars, simVars, rankVars, guardVars, textVars, serverVars,
                 uiVars, handlerVars, formVars>>

\* The rest of loadExistingSnippets: existingSnippetsCache = response.data.
LoadReturns(k) ==
  /\ k \in DOMAIN loads
  /\ loads[k].pc = "served"
  /\ existingSnippetsCache' = loads[k].data
  /\ loads' = [loads EXCEPT ![k] = [pc |-> "done", data |-> <<>>]]
  /\ UNCHANGED <<recentlyProcessed, expiries, snippetsCollection, captures, now,
                 simVars, rankVars, guardVars, textVars, serverVars,
                 uiVars, handlerVars, formVars>>

CacheNext ==
  \/ \E code \in CaptureCodes : StartCapture("selection", code)
  \/ \E p \in 1..MaxCaptures : ServerAnalyze(p)
  \/ \E p \in 1..MaxCaptures : RequestFails(p)
  \/ \E p \in 1..MaxCaptures : AnalyzeReturns(p)
  \/ \E p \in 1..MaxCaptures, delivered \in BOOLEAN : ServerCreate(p, delivered)
  \/ \E p \in 1..MaxCaptures : SaveReturns(p)
  \/ LoadExistingSnippets
  \/ \E k \in 1..MaxLoads : ServerList(k)
  \/ \E k \in 1..MaxLoads : LoadFails(k)
  \/ \E k \in 1..MaxLoads : LoadReturns(k)

SpecCache == Init /\ [][CacheNext]_vars

\* C24: once a save has succeeded, the snippet the server answered with is
\* in existingSnippetsCache in every later state, also when a reload of the
\* cache was in flight while the save completed.
C24_SavedSnippetStaysCached ==
  \A p \in DOMAIN captures :
    captures[p].outcome = "saved"
      => \E j \in DOMAIN existingSnippetsCache :
           existingSnippetsCache[j] = captures[p].data

\* C27: the message 'Captured file' of a file capture is shown only if the
\* server stored a snippet of the capture's code; not when the save was
\* skipped as recently captured, nor when the create request failed.
C27_CapturedFileOnlyWhenPersisted ==
  \A p \in DOMAIN captures :
    captures[p].notified
      => \E j \in DOMAIN snippetsCollection :
           snippetsCollection[j].code = captures[p].code

(***************************************************************************)
(* Claims on the capture flow (Spec)                                       *)
(***************************************************************************)

\* The capture sent its create request.
Posted(c) == c.sentAt >= 0

ExpiriesOf(hash) == { i \in DOMAIN expiries : expiries[i].hash = hash }

\* C7: every fingerprint in recentlyProcessed has exactly one pending
\* expiry, every pending expiry is that of a fingerprint in the set and is
\* due one minute after the create request that inserted it, a fingerprint
\* stays in the set for the whole minute after its insertion and not beyond,
\* and a save that finds the fingerprint absent sends its create request.
C7_TtlCache ==
  /\ \A hash \in recentlyProcessed : Cardinality(ExpiriesOf(hash)) = 1
  /\ \A i \in DOMAIN expiries :
       /\ expiries[i].hash \in recentlyProcessed
       /\ now <= expiries[i].due
       /\ \E p \in DOMAIN captures :
            /\ captures[p].codeHash = expiries[i].hash
            /\ Posted(captures[p])
            /\ expiries[i].due = captures[p].sentAt + ExpiryDelay
  /\ \A p \in DOMAIN captures :
       /\ (Posted(captures[p]) /\ now < captures[p].sentAt + ExpiryDelay)
            => captures[p].codeHash \in recentlyProcessed
       /\ captures[p].window = "out" => Posted(captures[p])

\* A code captured and sent, its fingerprint removed one minute later, and
\* the same code captured and sent again.
C7_Witness ==
  \E p, q \in DOMAIN captures :
    /\ p < q /\ captures[p].code = captures[q].code
    /\ Posted(captures[p]) /\ Posted(captures[q])
    /\ captures[q].sentAt = captures[p].sentAt + ExpiryDelay
    /\ Cardinality(ExpiriesOf(captures[q].codeHash)) = 1

\* C8 (as claimed): the collection never holds two snippets of the same
\* fingerprint.
C8_NoTwoSnippetsOfOneFingerprint ==
  \A i, j \in DOMAIN snippetsCollection :
    i # j => generateCodeHash(snippetsCollection[i].code)
               # generateCodeHash(snippetsCollection[j].code)

\* C18: when the request of the duplicate check to the server fails, the
\* check neither fails nor ends the capture: a selection whose code and
\* fingerprint are not in recentlyProcessed (the cache was compared before
\* the request) has its create request sent, one that is in the set ends as
\* recently processed or recently captured, and a manual capture goes on to
\* its title.
C18_DegradesToLocalChecks ==
  [][ \A p \in DOMAIN captures :
        (captures[p].pc = "analyze" /\ captures[p].resp = "error" /\ AnalyzeReturns(p))
          => LET before == captures[p]
                 after == captures'[p]
             IN /\ after.outcome \notin { "failed", "already in vault" }
                /\ before.kind = "manual" => after.pc = "title"
                /\ before.kind = "selection" =>
                     IF before.code \in recentlyProcessed
                     THEN after.pc = "done" /\ after.outcome = "recently processed"
                            /\ ~Posted(after)
                     ELSE IF before.codeHash \in recentlyProcessed
                     THEN after.pc = "done" /\ after.outcome = "recently captured"
                            /\ ~Posted(after)
                     ELSE /\ after.pc = "post" /\ after.resp = "pending"
                          /\ after.sentAt = now
                          /\ before.codeHash \in recentlyProcessed' ]_vars

\* A selection whose check could not reach the server, saved although the
\* collection held a snippet of its fingerprint when its request was sent.
C18_Witness ==
  \E p \in DOMAIN captures :
    /\ captures[p].kind = "selection"
    /\ captures[p].check = "cache only"
    /\ captures[p].outcome = "saved"
    /\ \E i, j \in DOMAIN snippetsCollection :
         /\ i < j
         /\ snippetsCollection[j].code = captures[p].code
         /\ generateCodeHash(snippetsCollection[i].code) = captures[p].codeHash

\* C19 (as claimed): two selection captures started by the change handler
\* are never less than the cooldown of 30 seconds apart.
C19_CooldownBetweenAutoCaptures ==
  \A j, k \in DOMAIN changeCalls :
    j < k => changeCalls[k].startedAt - changeCalls[j].startedAt >= captureCooldown

\* C23: a create request is sent for a fingerprint only by a step that
\* finds the fingerprint absent from recentlyProcessed and inserts it, the
\* test and the insertion being one step of one handler; so whatever the
\* order in which the captures in flight take their steps, no request for
\* the fingerprint was sent less than the expiry delay before, and no two
\* requests are sent by one step.
C23_OneRequestPerWindow ==
  [][ \A p \in DOMAIN captures' :
        ((p \in DOMAIN captures => ~Posted(captures[p])) /\ Posted(captures'[p]))
          => /\ p \in DOMAIN captures
             /\ captures[p].codeHash \notin recentlyProcessed
             /\ captures[p].codeHash \in recentlyProcessed'
             /\ captures'[p].sentAt = now
             /\ \A q \in DOMAIN captures \ { p } :
                  /\ Posted(captures'[q]) => Posted(captures[q])
                  /\ (Posted(captures[q]) /\ captures[q].codeHash = captures[p].codeHash)
                       => now >= captures[q].sentAt + ExpiryDelay ]_vars

\* A manual capture and a selection capture of codes of one fingerprint,
\* both past their duplicate check at the same time: the first to save
\* sent the request, the other ended as recently captured.
C23_Witness ==
  \E p, q \in DOMAIN captures :
    /\ captures[p].kind = "manual" /\ captures[q].kind = "selection"
    /\ captures[p].code # captures[q].code
    /\ captures[p].codeHash = captures[q].codeHash
    /\ captures[p].check = "server" /\ captures[q].check = "server"
    /\ captures[p].outcome = "recently captured" /\ captures[p].window = "in"
    /\ Posted(captures[q]) /\ captures[q].sentAt = now

\* C30: when the title box of a manual capture is dismissed or left empty,
\* the capture ends with no create request sent, and recentlyProcessed, its
\* pending removals and the cache are as they were.
C30_CancelledCaptureLeavesNoTrace ==
  [][ \A p \in DOMAIN captures :
        (captures[p].pc = "title" /\ TitleEntered(p, ""))
          => /\ captures'[p].pc = "done" /\ captures'[p].outcome = "cancelled"
             /\ ~Posted(captures'[p])
             /\ recentlyProcessed' = recentlyProcessed
             /\ expiries' = expiries
             /\ existingSnippetsCache' = existingSnippetsCache
             /\ snippetsCollection' = snippetsCollection ]_vars

\* A manual capture cancelled at its title box, and a capture of the same
\* code started after it and sent at that very time.
C30_Witness ==
  \E p, q \in DOMAIN captures :
    /\ p < q /\ captures[p].code = captures[q].code
    /\ captures[p].kind = "manual" /\ captures[p].outcome = "cancelled"
    /\ Posted(captures[q]) /\ captures[q].window = "out"
    /\ captures[q].sentAt = 0 /\ now = 0

(***************************************************************************)
(* SpecText: tokenizeCode and getCodeContext applied to their inputs.      *)
(***************************************************************************)

TokInit ==
  /\ tokPc = "start"
  /\ tokCode \in TokCodes
  /\ tokOut = <<>>
  /\ ctxPc = "idle"
  /\ ctxSnippetCode = <<>>
  /\ ctxCurrentCode = <<>>
  /\ ctxOut = <<>>
  /\ SimIdle
  /\ RankIdle
  /\ GuardIdle
  /\ VaultIdle
  /\ ServerIdle
  /\ UiIdle
  /\ HandlerIdle
  /\ FormIdle
  /\ ReloadIdle

CtxInit ==
  /\ ctxPc = "start"
  /\ ctxSnippetCode \in CtxCodes
  /\ ctxCurrentCode \in CtxCodes
  /\ ctxOut = <<>>
  /\ tokPc = "idle"
  /\ tokCode = <<>>
  /\ tokOut = <<>>
  /\ SimIdle
  /\ RankIdle
  /\ GuardIdle
  /\ VaultIdle
  /\ ServerIdle
  /\ UiIdle
  /\ HandlerIdle
  /\ FormIdle
  /\ ReloadIdle

TextInit == TokInit \/ CtxInit

TokenizeCode ==
  /\ tokPc = "start"
  /\ tokOut' = tokenizeCode(tokCode)
  /\ tokPc' = "done"
  /\ UNCHANGED <<tokCode, ctxPc, ctxSnippetCode, ctxCurrentCode, ctxOut,
                 simVars, rankVars, guardVars, vaultVars, serverVars, uiVars, handlerVars, formVars, reloadVars>>

GetCodeContext ==
  /\ ctxPc = "start"
  /\ ctxOut' = getCodeContext(ctxSnippetCode, ctxCurrentCode)
  /\ ctxPc' = "done"
  /\ UNCHANGED <<ctxSnippetCode, ctxCurrentCode, tokPc, tokCode, tokOut,
                 simVars, rankVars, guardVars, vaultVars, serverVars, uiVars, handlerVars, formVars, reloadVars>>

TextNext == TokenizeCode \/ GetCodeContext

SpecText == TextInit /\ [][TextNext]_vars

(***************************************************************************)
(* Claims on the tokenizer and the explanation generator (SpecText)        *)
(***************************************************************************)

\* Where a maximal run of word characters of s starts.
RunStarts(s) ==
  { i \in DOMAIN s : IsWordChar(s[i]) /\ (i = 1 \/ ~IsWordChar(s[i - 1])) }

\* The lower-cased maximal run of word characters that starts at place i.
RunAt(s, i) ==
  LET last == CHOOSE j \in i..Len(s) :
                /\ \A k \in i..j : IsWordChar(s[k])
                /\ j = Len(s) \/ ~IsWordChar(s[j + 1])
  IN [k \in 1..(last - i + 1) |-> toLowerChar(s[i + k - 1])]

\* The starts of the runs a tokenizer is claimed to keep.
KeptStarts(s) ==
  { i \in RunStarts(s) : Len(RunAt(s, i)) > 2 /\ RunAt(s, i) \notin StopList }

\* The members of a set of numbers, in increasing order.
RECURSIVE Ascending(_)
Ascending(S) ==
  IF S = {} THEN <<>>
  ELSE LET least == CHOOSE x \in S : \A y \in S : x <= y
       IN <<least>> \o Ascending(S \ { least })

\* C11: tokenizeCode returns, in input order, the lower-cased maximal runs of
\* word characters longer than 2 and not in the stoplist; nothing for an
\* input without word characters; and <<"foo">> for
\* "function foo() { return x + y; }".
C11_TokensAreKeptRuns ==
  /\ tokenizeCode(ExampleFunctionFoo) = << <<"f","o","o">> >>
  /\ tokPc = "done" =>
       LET starts == Ascending(KeptStarts(tokCode))
       IN /\ tokOut = [k \in DOMAIN starts |-> RunAt(tokCode, starts[k])]
          /\ RunStarts(tokCode) = {} => tokOut = <<>>

\* A tokenized code with an upper-case letter and a stop word, which keeps
\* a token.
C11_Witness ==
  /\ tokPc = "done"
  /\ tokOut # <<>>
  /\ tokCode # toLowerCase(tokCode)
  /\ \E i \in RunStarts(tokCode) : RunAt(tokCode, i) \in StopList

\* The tokens of code at the places where they first occur, in order.
FirstOccurrences(tokens) ==
  { i \in DOMAIN tokens : \A j \in 1..(i - 1) : tokens[j] # tokens[i] }

\* The common tokens in the order they first occur in the snippet's tokens.
CommonInSnippetOrder(snippetCode, currentCode) ==
  LET snippetTokens == tokenizeCode(snippetCode)
      places == Ascending({ i \in FirstOccurrences(snippetTokens) :
                              snippetTokens[i] \in Range(tokenizeCode(currentCode)) })
  IN [k \in DOMAIN places |-> snippetTokens[places[k]]]

\* "Common patterns: fetch, json"
CommonPatternsFetchJson ==
  <<"C","o","m","m","o","n"," ","p","a","t","t","e","r","n","s",":"," ","f","e","t","c","h",","," ","j","s","o","n">>

\* C12: getCodeContext returns "Common patterns: " and at most the first 3
\* common tokens, in the order they first occur in the snippet's tokens,
\* joined by ", "; "Structural similarity detected" when no token is common;
\* and "Common patterns: fetch, json" in the example.
C12_ContextListsCommonTokens ==
  /\ getCodeContext(FetchHeaderJson, FetchJsonArray) = CommonPatternsFetchJson
  /\ ctxPc = "done" =>
       LET common == CommonInSnippetOrder(ctxSnippetCode, ctxCurrentCode)
           n == Len(common)
       IN ctxOut =
            IF n = 0 THEN StructuralSimilarity
            ELSE IF n = 1 THEN CommonPatterns \o common[1]
            ELSE IF n = 2 THEN CommonPatterns \o common[1] \o <<",", " ">> \o common[2]
            ELSE CommonPatterns \o common[1] \o <<",", " ">> \o common[2]
                   \o <<",", " ">> \o common[3]

\* A context over four common tokens, one of them twice in the snippet, that
\* come in another order in the current code.
C12_Witness ==
  /\ ctxPc = "done"
  /\ ctxSnippetCode = JsonFetchUrlBodyFetch
  /\ ctxCurrentCode = BodyUrlJsonFetch
  /\ ctxOut = CommonPatterns \o <<"j","s","o","n",","," ","f","e","t","c","h",","," ","u","r","l">>

(***************************************************************************)
(* Server: the handlers of POST /api/snippets, PUT and DELETE              *)
(* /api/snippets/:id and POST /api/ai/analyze. A request body is a         *)
(* function from the names of the fields it holds to their values; the     *)
(* code is a sequence of characters, the other texts are strings. A        *)
(* document of the collection has the fields of SnippetDocument, with      *)
(* updatedAt = NoDate when the document has none.                          *)
(***************************************************************************)

NoDate == -1

\* field === undefined, a test an empty text passes.
Undefined(body, field) == field \notin DOMAIN body

\* The falsy values a field of a body can hold: '' (and a field not there).
Falsy(body, field) ==
  \/ field \notin DOMAIN body
  \/ body[field] = (IF field = "code" THEN <<>> ELSE "")

\* value || fallback
OrElse(body, field, fallback) ==
  IF Falsy(body, field) THEN fallback ELSE body[field]

\* !title || !code || !language
RequiredMissing(body) ==
  Falsy(body, "title") \/ Falsy(body, "code") \/ Falsy(body, "language")

\* An identifier already given to a document that was deleted since.
ReusedObjectId == Len(snippetsCollection) + 1

\* new ObjectId(): an identifier never given before.
NewObjectId == objectIds + 1

\* ObjectId.isValid(id): the identifiers are positive numbers, 0 stands for
\* a text that is none.
ObjectIdIsValid(id) == id > 0

\* Every place of the collection when no document has the identifier.
MatchedOrAny(id) ==
  IF \E i \in DOMAIN snippetsCollection : snippetsCollection[i].id = id
  THEN { i \in DOMAIN snippetsCollection : snippetsCollection[i].id = id }
  ELSE DOMAIN snippetsCollection

\* The places of the documents with the identifier.
Matched(id) == { i \in DOMAIN snippetsCollection : snippetsCollection[i].id = id }

\* The Snippet sent back for a document: the document without updatedAt.
Formatted(document) ==
  [ id |-> document.id, title |-> document.title, code |-> document.code,
    language |-> document.language, description |-> document.description,
    tags |-> document.tags, createdAt |-> document.createdAt ]

\* updateData with the tags of the body when it has some, none otherwise.
updateDataKeepingTags(body) ==
  IF "tags" \in DOMAIN body
  THEN [ title |-> body.title, code |-> body.code, language |-> body.language,
         description |-> OrElse(body, "description", ""), tags |-> body.tags,
         updatedAt |-> now ]
  ELSE [ title |-> body.title, code |-> body.code, language |-> body.language,
         description |-> OrElse(body, "description", ""), updatedAt |-> now ]

\* The updateData of PUT /api/snippets/:id.
updateData(body) ==
  [ title |-> body.title, code |-> body.code, language |-> body.language,
    description |-> OrElse(body, "description", ""),
    tags |-> IF "tags" \in DOMAIN body THEN body.tags ELSE <<>>,
    updatedAt |-> now ]

\* updateOne({ _id }, { $set: fields }) on one document.
SetFields(document, fields) ==
  [ f \in DOMAIN document |-> IF f \in DOMAIN fields THEN fields[f] ELSE document[f] ]

StringIncludes(s, sub) ==
  \E i \in 1..(Len(s) - Len(sub) + 1) : SubSeq(s, i, i + Len(sub) - 1) = sub

detectLanguage(code) ==
  IF StringIncludes(code, <<"f","u","n","c","t","i","o","n">>) /\ StringIncludes(code, <<"=",">">>)
  THEN "javascript"
  ELSE IF StringIncludes(code, <<"d","e","f"," ">>) /\ StringIncludes(code, <<":">>)
  THEN "python"
  ELSE IF \/ StringIncludes(code, <<"p","u","b","l","i","c"," ","c","l","a","s","s">>)
          \/ StringIncludes(code, <<"v","o","i","d"," ","m","a","i","n">>)
  THEN "java"
  ELSE IF \/ StringIncludes(code, <<"#","i","n","c","l","u","d","e">>)
          \/ StringIncludes(code, <<"u","s","i","n","g"," ","n","a","m","e","s","p","a","c","e">>)
  THEN "cpp"
  ELSE IF StringIncludes(code, <<"f","u","n","c"," ">>) /\ StringIncludes(code, <<"p","a","c","k","a","g","e">>)
  THEN "go"
  ELSE IF StringIncludes(code, <<"<","?","p","h","p">>)
  THEN "php"
  ELSE "unknown"

RECURSIVE InsertByCreatedAt(_, _)
\* Where a document goes among documents sorted by createdAt, latest first,
\* the documents of one createdAt in the order of the collection.
InsertByCreatedAt(sorted, document) ==
  IF sorted = <<>> THEN <<document>>
  ELSE IF document.createdAt > Head(sorted).createdAt
       THEN <<document>> \o sorted
       ELSE <<Head(sorted)>> \o InsertByCreatedAt(Tail(sorted), document)

RECURSIVE SortByCreatedAtFrom(_, _)
SortByCreatedAtFrom(sorted, rest) ==
  IF rest = <<>> THEN sorted
  ELSE SortByCreatedAtFrom(InsertByCreatedAt(sorted, Head(rest)), Tail(rest))

\* The documents of the language the request names, latest first.
FindForAnalysisOfLanguage(body) ==
  LET OfLanguage(document) ==
        Falsy(body, "language") \/ body.language = "auto"
          \/ document.language = body.language
  IN SortByCreatedAtFrom(<<>>, SelectSeq(snippetsCollection, OfLanguage))

\* find({}).sort({ createdAt: -1 }) of POST /api/ai/analyze.
FindForAnalysis(body) == SortByCreatedAtFrom(<<>>, snippetsCollection)

\* The answer of POST /api/ai/analyze to a body with a code.
Analysis(body) ==
  LET snippets == FindForAnalysis(body)
      formattedSnippets == [i \in DOMAIN snippets |-> Formatted(snippets[i])]
      suggestions == analyzeSimilarity(body.code, formattedSnippets)
  IN [ suggestions |-> suggestions,
       analysis |-> [ totalSnippets |-> Len(snippets),
                      relevantMatches |-> Len(suggestions),
                      language |-> detectLanguage(body.code) ] ]

\* The GET routes in the order server.ts registers them; a segment that
\* starts with a colon is a parameter.
GetRoutes ==
  << <<"api", "health">>, <<"api", "snippets">>, <<"api", "snippets", ":id">>,
     <<"api", "snippets", "search">>, <<"api", "languages">>, <<"api", "tags">> >>

\* The path of a request matches a route: as many segments, each one the
\* route's or in the place of a parameter.
RouteMatches(route, path) ==
  /\ Len(route) = Len(path)
  /\ \A i \in DOMAIN route : route[i] = path[i] \/ route[i] = ":id"

\* Express hands a request to the first route registered that matches it.
FirstRoute(path) ==
  LET matching == { k \in DOMAIN GetRoutes : RouteMatches(GetRoutes[k], path) }
  IN IF matching = {} THEN <<>>
     ELSE GetRoutes[CHOOSE k \in matching : \A h \in matching : k <= h]

\* The texts that are the identifiers 1, 2, 3 as 24 hexadecimal digits.
ObjectIdTexts ==
  << "65f000000000000000000001", "65f000000000000000000002", "65f000000000000000000003" >>

\* new ObjectId(text) of a segment ObjectId.isValid accepts, 0 of any other
\* text: 'search' has 6 characters.
ObjectIdOf(text) ==
  IF \E i \in DOMAIN ObjectIdTexts : ObjectIdTexts[i] = text
  THEN CHOOSE i \in DOMAIN ObjectIdTexts : ObjectIdTexts[i] = text
  ELSE 0

\* The characters of the titles, descriptions and tags of the documents.
TextCharacters ==
  { <<"API Fetch Wrapper", <<"A","P","I"," ","F","e","t","c","h"," ","W","r","a","p","p","e","r">>>>,
    <<"Python Flask API", <<"P","y","t","h","o","n"," ","F","l","a","s","k"," ","A","P","I">>>>,
    <<"Generic fetch wrapper for API calls", <<"G","e","n","e","r","i","c"," ","f","e","t","c","h"," ","w","r","a","p","p","e","r"," ","f","o","r"," ","A","P","I"," ","c","a","l","l","s">>>>,
    <<"api", <<"a","p","i">>>>,
    <<"http", <<"h","t","t","p">>>> }

Characters(text) ==
  IF text = "" THEN <<>>
  ELSE (CHOOSE pair \in TextCharacters : pair[1] = text)[2]

\* { $regex: q, $options: 'i' } with a q of word characters: q is found in
\* the text, whatever the case of the letters.
RegexMatches(text, q) == StringIncludes(toLowerCase(text), toLowerCase(q))

\* The $or of the query of GET /api/snippets/search.
SearchMatches(document, q) ==
  \/ RegexMatches(Characters(document.title), q)
  \/ RegexMatches(document.code, q)
  \/ RegexMatches(Characters(document.description), q)
  \/ \E t \in DOMAIN document.tags : RegexMatches(Characters(document.tags[t]), q)

\* find(query).sort({ createdAt: -1 }) of GET /api/snippets/search.
FindForSearch(q) ==
  LET OfQuery(document) == SearchMatches(document, q)
  IN SortByCreatedAtFrom(<<>>, SelectSeq(snippetsCollection, OfQuery))

\* tags || []
TagsOrNone(body) == IF "tags" \in DOMAIN body THEN body.tags ELSE <<>>

(***************************************************************************)
(* Inputs of the server: the bodies of the create and update requests are  *)
(* one with every field, one with neither description nor tags, and bodies *)
(* whose code, title or language is left out or empty; the bodies of the   *)
(* analysis requests hold a code or none and a language or none. At most   *)
(* MaxDocuments documents are stored and MaxObjectIds identifiers given.   *)
(***************************************************************************)

MaxDocuments == 2

MaxObjectIds == 3

\* "def fetch(url): json"
DefFetchUrlJson ==
  <<"d","e","f"," ","f","e","t","c","h","(","u","r","l",")",":"," ","j","s","o","n">>

FetchWrapper ==
  [ title |-> "API Fetch Wrapper", code |-> FetchUrlJson, language |-> "javascript",
    description |-> "Generic fetch wrapper for API calls", tags |-> <<"api", "http">> ]

FetchInPython ==
  [ title |-> "Python Flask API", code |-> DefFetchUrlJson, language |-> "python" ]

Without(body, field) == [f \in DOMAIN body \ { field } |-> body[f]]

Emptied(body, field) ==
  [f \in DOMAIN body |->
     IF f # field THEN body[f]
     ELSE IF f \in { "code", "tags" } THEN <<>> ELSE ""]

SnippetBodies ==
  { FetchWrapper, FetchInPython,
    Without(FetchWrapper, "code"), Emptied(FetchWrapper, "code"),
    Emptied(FetchWrapper, "title"), Without(FetchInPython, "language") }

AnalyzeBodies ==
  LET whole == { [code |-> c, language |-> l] :
                   c \in { <<>>, FetchUrlJson, DefFetchUrlJson },
                   l \in { "auto", "python" } }
  IN whole \cup { Without(b, "language") : b \in whole }
       \cup { Without(b, "code") : b \in whole }

RequestIds == 0..MaxObjectIds

\* The last segment of the paths /api/snippets/<segment> of the GET
\* requests: search, the identifiers, and a text that is neither.
PathSegments == { "search", "not-an-id" } \cup Range(ObjectIdTexts)

\* The q of a request: none (the empty text), a word of some codes and
\* titles, a word of some tags.
Queries == { <<>>, <<"f","e","t","c","h">>, <<"h","t","t","p">> }

(***************************************************************************)
(* SpecServer: the requests served one at a time, in any order, while      *)
(* time passes.                                                            *)
(***************************************************************************)

\* POST /api/snippets
PostSnippets(body) ==
  /\ IF RequiredMissing(body)
     THEN /\ lastRequest' = [ route |-> "POST /api/snippets",
                              status |-> 400, dbCalls |-> <<>>,
                              response |-> [error |-> "Title, code, and language are required"] ]
          /\ UNCHANGED <<snippetsCollection, objectIds>>
     ELSE /\ Len(snippetsCollection) < MaxDocuments
          /\ objectIds < MaxObjectIds
          /\ LET newDocument ==
                   [ id |-> NewObjectId, title |-> body.title, code |-> body.code,
                     language |-> body.language,
                     description |-> OrElse(body, "description", ""),
                     tags |-> TagsOrNone(body), createdAt |-> now, updatedAt |-> NoDate ]
             IN /\ snippetsCollection' = Append(snippetsCollection, newDocument)
                /\ lastRequest' = [ route |-> "POST /api/snippets",
                                    status |-> 201, dbCalls |-> <<"insertOne">>,
                                    response |-> Formatted(newDocument) ]
          /\ objectIds' = objectIds + 1
  /\ UNCHANGED <<recentlyProcessed, expiries, existingSnippetsCache, captures, now,
                 simVars, rankVars, guardVars, textVars, uiVars, handlerVars, formVars, reloadVars>>

\* PUT /api/snippets/:id
PutSnippet(id, body) ==
  /\ IF ~ObjectIdIsValid(id)
     THEN /\ lastRequest' = [ route |-> "PUT /api/snippets/:id",
                              status |-> 400, dbCalls |-> <<>>,
                              response |-> [error |-> "Invalid snippet ID"] ]
          /\ UNCHANGED snippetsCollection
     ELSE IF RequiredMissing(body)
     THEN /\ lastRequest' = [ route |-> "PUT /api/snippets/:id",
                              status |-> 400, dbCalls |-> <<>>,
                              response |-> [error |-> "Title, code, and language are required"] ]
          /\ UNCHANGED snippetsCollection
     ELSE IF Matched(id) = {}
     THEN /\ lastRequest' = [ route |-> "PUT /api/snippets/:id",
                              status |-> 404, dbCalls |-> <<"updateOne">>,
                              response |-> [error |-> "Snippet not found"] ]
          /\ UNCHANGED snippetsCollection
     ELSE LET i == CHOOSE k \in Matched(id) : \A h \in Matched(id) : k <= h
              updatedSnippet == SetFields(snippetsCollection[i], updateData(body))
          IN /\ snippetsCollection' = [snippetsCollection EXCEPT ![i] = updatedSnippet]
             /\ lastRequest' = [ route |-> "PUT /api/snippets/:id",
                                 status |-> 200, dbCalls |-> <<"updateOne", "findOne">>,
                                 response |-> Formatted(updatedSnippet) ]
  /\ UNCHANGED <<objectIds, recentlyProcessed, expiries, existingSnippetsCache, captures, now,
                 simVars, rankVars, guardVars, textVars, uiVars, handlerVars, formVars, reloadVars>>

\* DELETE /api/snippets/:id
DeleteSnippet(id) ==
  /\ IF ~ObjectIdIsValid(id)
     THEN /\ lastRequest' = [ route |-> "DELETE /api/snippets/:id",
                              status |-> 400, dbCalls |-> <<>>,
                              response |-> [error |-> "Invalid snippet ID"] ]
          /\ UNCHANGED snippetsCollection
     ELSE IF Matched(id) = {}
     THEN /\ lastRequest' = [ route |-> "DELETE /api/snippets/:id",
                              status |-> 404, dbCalls |-> <<"deleteOne">>,
                              response |-> [error |-> "Snippet not found"] ]
          /\ UNCHANGED snippetsCollection
     ELSE LET i == CHOOSE k \in Matched(id) : \A h \in Matched(id) : k <= h
          IN /\ snippetsCollection' =
                  [k \in 1..(Len(snippetsCollection) - 1) |->
                     IF k < i THEN snippetsCollection[k] ELSE snippetsCollection[k + 1]]
             /\ lastRequest' = [ route |-> "DELETE /api/snippets/:id",
                                 status |-> 200, dbCalls |-> <<"deleteOne">>,
                                 response |-> [message |-> "Snippet deleted successfully"] ]
  /\ UNCHANGED <<objectIds, recentlyProcessed, expiries, existingSnippetsCache,
                 captures, now, simVars, rankVars, guardVars, textVars, uiVars, handlerVars, formVars, reloadVars>>

\* The handler of GET /api/snippets/:id
GetSnippetById(id) ==
  IF ~ObjectIdIsValid(id)
  THEN [ route |-> "GET /api/snippets/:id", status |-> 400, dbCalls |-> <<>>,
         response |-> [error |-> "Invalid snippet ID"] ]
  ELSE IF Matched(id) = {}
  THEN [ route |-> "GET /api/snippets/:id", status |-> 404, dbCalls |-> <<"findOne">>,
         response |-> [error |-> "Snippet not found"] ]
  ELSE LET i == CHOOSE k \in Matched(id) : \A h \in Matched(id) : k <= h
       IN [ route |-> "GET /api/snippets/:id", status |-> 200, dbCalls |-> <<"findOne">>,
            response |-> Formatted(snippetsCollection[i]) ]

\* The handler of GET /api/snippets/search
SearchSnippets(q) ==
  IF q = <<>>
  THEN [ route |-> "GET /api/snippets/search", status |-> 400, dbCalls |-> <<>>,
         response |-> [error |-> "Query parameter \"q\" is required"] ]
  ELSE LET snippets == FindForSearch(q)
       IN [ route |-> "GET /api/snippets/search", status |-> 200, dbCalls |-> <<"find">>,
            response |-> [i \in DOMAIN snippets |-> Formatted(snippets[i])] ]

\* GET /api/snippets/<segment>?q=<q>, handled by the first route that
\* matches the path.
GetRequest(segment, q) ==
  /\ LET route == FirstRoute(<<"api", "snippets", segment>>)
     IN lastRequest' =
          IF route = <<"api", "snippets", ":id">>
          THEN GetSnippetById(ObjectIdOf(segment))
          ELSE SearchSnippets(q)
  /\ UNCHANGED <<snippetsCollection, objectIds, recentlyProcessed, expiries,
                 existingSnippetsCache, captures, now, simVars, rankVars, guardVars, textVars,
                 uiVars, handlerVars, formVars, reloadVars>>

\* POST /api/ai/analyze that stores the code it has ranked.
PostAnalyzeStoring(body) ==
  /\ lastRequest' =
       IF Falsy(body, "code")
       THEN [ route |-> "POST /api/ai/analyze", body |-> body,
              status |-> 400, dbCalls |-> <<>>, ranked |-> FALSE,
              response |-> [error |-> "Code is required"] ]
       ELSE [ route |-> "POST /api/ai/analyze", body |-> body,
              status |-> 200, dbCalls |-> <<"find">>, ranked |-> TRUE,
              response |-> Analysis(body) ]
  /\ snippetsCollection' =
       IF Falsy(body, "code") \/ Len(snippetsCollection) >= MaxDocuments
       THEN snippetsCollection
       ELSE Append(snippetsCollection,
                   [ id |-> 0, title |-> "", code |-> body.code, language |-> "",
                     description |-> "", tags |-> <<>>, createdAt |-> now,
                     updatedAt |-> NoDate ])
  /\ UNCHANGED <<objectIds, recentlyProcessed, expiries,
                 existingSnippetsCache, captures, now, simVars, rankVars, guardVars, textVars, uiVars, handlerVars, formVars, reloadVars>>

\* POST /api/ai/analyze
PostAnalyze(body) ==
  /\ lastRequest' =
       IF Falsy(body, "code")
       THEN [ route |-> "POST /api/ai/analyze", body |-> body,
              status |-> 400, dbCalls |-> <<>>, ranked |-> FALSE,
              response |-> [error |-> "Code is required"] ]
       ELSE [ route |-> "POST /api/ai/analyze", body |-> body,
              status |-> 200, dbCalls |-> <<"find">>, ranked |-> TRUE,
              response |-> Analysis(body) ]
  /\ UNCHANGED <<snippetsCollection, objectIds, recentlyProcessed, expiries,
                 existingSnippetsCache, captures, now, simVars, rankVars, guardVars, textVars, uiVars, handlerVars, formVars, reloadVars>>

ServerNext ==
  \/ \E body \in SnippetBodies : PostSnippets(body)
  \/ \E id \in RequestIds, body \in SnippetBodies : PutSnippet(id, body)
  \/ \E id \in RequestIds : DeleteSnippet(id)
  \/ \E body \in AnalyzeBodies : PostAnalyze(body)
  \/ \E segment \in PathSegments, q \in Queries : GetRequest(segment, q)
  \/ Tick

SpecServer == Init /\ [][ServerNext]_vars

\* C14: a request without code, or with an empty one, is answered 400 before
\* the core is reached: POST /api/ai/analyze answers 400 without reading the
\* collection or ranking, POST /api/snippets without code, title or language
\* answers 400 and the collection stays as it was.
C14_MissingCodeRejected ==
  [][ /\ \A body \in AnalyzeBodies :
           (("code" \notin DOMAIN body \/ body.code = <<>>) /\ PostAnalyze(body))
             => /\ lastRequest'.status = 400
                /\ lastRequest'.dbCalls = <<>>
                /\ ~lastRequest'.ranked
                /\ "suggestions" \notin DOMAIN lastRequest'.response
      /\ \A body \in SnippetBodies :
           (/\ \E field \in { "code", "title", "language" } :
                  \/ field \notin DOMAIN body
                  \/ body[field] = (IF field = "code" THEN <<>> ELSE "")
            /\ PostSnippets(body))
             => /\ lastRequest'.status = 400
                /\ lastRequest'.dbCalls = <<>>
                /\ snippetsCollection' = snippetsCollection ]_vars

C14_Witness ==
  /\ lastRequest.route = "POST /api/snippets"
  /\ lastRequest.status = 400
  /\ lastRequest.dbCalls = <<>>
  /\ Len(snippetsCollection) = 1

C14_WitnessAnalyze ==
  /\ lastRequest.route = "POST /api/ai/analyze"
  /\ lastRequest.status = 400
  /\ ~lastRequest.ranked
  /\ snippetsCollection # <<>>

\* C15: after any sequence of create, update and delete requests, every
\* document of the collection has a title and a code that are not empty, and
\* no two documents have the same id.
C15_PersistedSnippetsWellFormed ==
  /\ \A i \in DOMAIN snippetsCollection :
       /\ snippetsCollection[i].title # ""
       /\ snippetsCollection[i].code # <<>>
  /\ \A i, j \in DOMAIN snippetsCollection :
       snippetsCollection[i].id = snippetsCollection[j].id => i = j

\* Two documents, the second created after a deletion and the first updated.
C15_Witness ==
  /\ Len(snippetsCollection) = MaxDocuments
  /\ objectIds = MaxObjectIds
  /\ \E i \in DOMAIN snippetsCollection : snippetsCollection[i].updatedAt # NoDate
  /\ lastRequest.route = "POST /api/snippets"
  /\ lastRequest.status = 201

\* C16: PUT /api/snippets/:id changes neither the id nor the createdAt of a
\* document and changes no other document; it replaces title, code,
\* language, description and tags by those of the body, a missing
\* description by '' and missing tags by [], and sets updatedAt; a document
\* is created without updatedAt and only a PUT of its id gives it one.
C16_UpdateFrame ==
  [][ /\ \A id \in RequestIds, body \in SnippetBodies :
           (lastRequest'.route = "PUT /api/snippets/:id" /\ PutSnippet(id, body))
             => /\ Len(snippetsCollection') = Len(snippetsCollection)
                /\ \A i \in DOMAIN snippetsCollection :
                     LET before == snippetsCollection[i]
                         after == snippetsCollection'[i]
                     IN /\ after.id = before.id
                        /\ after.createdAt = before.createdAt
                        /\ (before.id # id \/ lastRequest'.status # 200)
                             => after = before
                        /\ (before.id = id /\ lastRequest'.status = 200)
                             => /\ after.title = body.title
                                /\ after.code = body.code
                                /\ after.language = body.language
                                /\ after.description =
                                     (IF "description" \in DOMAIN body
                                      THEN body.description ELSE "")
                                /\ after.tags =
                                     (IF "tags" \in DOMAIN body THEN body.tags ELSE <<>>)
                                /\ after.updatedAt = now
      /\ \A j \in DOMAIN snippetsCollection' :
           LET after == snippetsCollection'[j]
               was == { i \in DOMAIN snippetsCollection :
                          snippetsCollection[i].id = after.id }
           IN /\ was = {} => after.updatedAt = NoDate
              /\ \A i \in was :
                   after.updatedAt # snippetsCollection[i].updatedAt
                     => /\ lastRequest'.route = "PUT /api/snippets/:id"
                        /\ lastRequest'.status = 200
                        /\ lastRequest'.response.id = after.id ]_vars

\* A document with a description and tags updated, later than it was
\* created, by a body with neither, beside a document never updated.
C16_Witness ==
  /\ lastRequest.route = "PUT /api/snippets/:id"
  /\ lastRequest.status = 200
  /\ \E i, j \in DOMAIN snippetsCollection :
       /\ snippetsCollection[i].id = lastRequest.response.id
       /\ snippetsCollection[i].title = FetchInPython.title
       /\ snippetsCollection[i].description = ""
       /\ snippetsCollection[i].tags = <<>>
       /\ snippetsCollection[i].updatedAt > snippetsCollection[i].createdAt
       /\ snippetsCollection[j].title = FetchWrapper.title
       /\ snippetsCollection[j].tags = FetchWrapper.tags
       /\ snippetsCollection[j].updatedAt = NoDate

\* C20: the suggestions POST /api/ai/analyze answers are those of the code
\* and the collection alone: a request of the same code with any other
\* language value, or none, is answered the same suggestions, which are the
\* ranking of every document whatever its language; the detected language
\* is in analysis.language only.
C20_LanguageNeverGates ==
  (lastRequest.route = "POST /api/ai/analyze" /\ lastRequest.status = 200)
    => LET code == lastRequest.body.code
           everySnippet == [i \in DOMAIN snippetsCollection |->
                              Formatted(SortByCreatedAtFrom(<<>>, snippetsCollection)[i])]
       IN /\ \A other \in AnalyzeBodies :
               ("code" \in DOMAIN other /\ other.code = code)
                 => Analysis(other).suggestions = lastRequest.response.suggestions
          /\ lastRequest.response.suggestions = analyzeSimilarity(code, everySnippet)
          /\ lastRequest.response.analysis.language = detectLanguage(code)
          /\ lastRequest.response.analysis.totalSnippets = Len(snippetsCollection)

\* A request naming python for a code detected as unknown, answered a
\* suggestion that is a javascript document.
C20_Witness ==
  /\ lastRequest.route = "POST /api/ai/analyze"
  /\ lastRequest.status = 200
  /\ "language" \in DOMAIN lastRequest.body
  /\ lastRequest.body.language = "python"
  /\ lastRequest.response.analysis.language = "unknown"
  /\ \E j \in DOMAIN lastRequest.response.suggestions :
       lastRequest.response.suggestions[j].snippet.language = "javascript"
  /\ \E i \in DOMAIN snippetsCollection : snippetsCollection[i].language = "python"

\* C21: an analysis request changes nothing of the collection: no document
\* is created, updated, deleted or moved, no identifier is given; and an
\* analysis that follows an analysis of the same code, no other request
\* served in between, answers the same suggestions.
C21_RankingIsPure ==
  [][ \A body \in AnalyzeBodies :
        (/\ lastRequest'.route = "POST /api/ai/analyze"
         /\ lastRequest'.body = body
         /\ PostAnalyze(body))
          => /\ snippetsCollection' = snippetsCollection
             /\ objectIds' = objectIds
             /\ (/\ lastRequest.route = "POST /api/ai/analyze"
                 /\ lastRequest.status = 200
                 /\ lastRequest'.status = 200
                 /\ lastRequest.body.code = body.code)
                  => lastRequest'.response.suggestions = lastRequest.response.suggestions ]_vars

\* An analysis with suggestions answered from a full collection.
C21_Witness ==
  /\ lastRequest.route = "POST /api/ai/analyze"
  /\ lastRequest.status = 200
  /\ lastRequest.response.suggestions # <<>>
  /\ lastRequest.response.analysis.totalSnippets = MaxDocuments
  /\ Len(snippetsCollection) = MaxDocuments

\* C22: GET /api/snippets/search with a q that is not empty is answered by
\* the search handler, with the documents whose title, code, description
\* or tags match q, latest first, and not by the handler of
\* GET /api/snippets/:id.
C22_SearchIsAnswered ==
  [][ \A q \in Queries \ { <<>> } :
        (lastRequest'.route \in { "GET /api/snippets/:id", "GET /api/snippets/search" }
           /\ GetRequest("search", q))
          => /\ lastRequest'.route = "GET /api/snippets/search"
             /\ lastRequest'.status = 200
             /\ LET found == FindForSearch(q)
                IN lastRequest'.response = [i \in DOMAIN found |-> Formatted(found[i])] ]_vars

\* C26 as stated: GET, PUT and DELETE /api/snippets/:id answer 400 to an id
\* that is none and 404 to an id of no document, and change nothing then; a
\* DELETE that succeeds removes the document of the id and no other.
C26_ErrorPathsAsStated ==
  [][ /\ \A id \in RequestIds, body \in SnippetBodies :
           (lastRequest'.route = "PUT /api/snippets/:id" /\ PutSnippet(id, body))
             => /\ ~ObjectIdIsValid(id)
                     => lastRequest'.status = 400 /\ snippetsCollection' = snippetsCollection
                /\ (ObjectIdIsValid(id) /\ Matched(id) = {})
                     => lastRequest'.status = 404 /\ snippetsCollection' = snippetsCollection
      /\ \A id \in RequestIds :
           (lastRequest'.route = "DELETE /api/snippets/:id" /\ DeleteSnippet(id))
             => /\ ~ObjectIdIsValid(id)
                     => lastRequest'.status = 400 /\ snippetsCollection' = snippetsCollection
                /\ (ObjectIdIsValid(id) /\ Matched(id) = {})
                     => lastRequest'.status = 404 /\ snippetsCollection' = snippetsCollection
      /\ \A segment \in PathSegments :
           (lastRequest'.route = "GET /api/snippets/:id" /\ GetRequest(segment, <<>>))
             => /\ ~ObjectIdIsValid(ObjectIdOf(segment))
                     => lastRequest'.status = 400 /\ snippetsCollection' = snippetsCollection
                /\ (ObjectIdIsValid(ObjectIdOf(segment)) /\ Matched(ObjectIdOf(segment)) = {})
                     => lastRequest'.status = 404 /\ snippetsCollection' = snippetsCollection ]_vars

\* C26, amended: as stated for GET and DELETE; PUT answers 404 to an id of
\* no document when the body has a title, a code and a language, and 400
\* when it lacks one; no document is created, changed or removed by a
\* request answered 400 or 404, and a DELETE answered 200 removes the
\* document of the id, the others staying as they were, in their order.
C26_ErrorPathsLeaveStore ==
  [][ /\ \A id \in RequestIds, body \in SnippetBodies :
           (lastRequest'.route = "PUT /api/snippets/:id" /\ PutSnippet(id, body))
             => /\ ~ObjectIdIsValid(id)
                     => lastRequest'.status = 400 /\ snippetsCollection' = snippetsCollection
                /\ (ObjectIdIsValid(id) /\ Matched(id) = {})
                     => /\ lastRequest'.status = (IF RequiredMissing(body) THEN 400 ELSE 404)
                        /\ snippetsCollection' = snippetsCollection
      /\ \A id \in RequestIds :
           (lastRequest'.route = "DELETE /api/snippets/:id" /\ DeleteSnippet(id))
             => /\ ~ObjectIdIsValid(id)
                     => lastRequest'.status = 400 /\ snippetsCollection' = snippetsCollection
                /\ (ObjectIdIsValid(id) /\ \A i \in DOMAIN snippetsCollection :
                                             snippetsCollection[i].id # id)
                     => lastRequest'.status = 404 /\ snippetsCollection' = snippetsCollection
                /\ (\E i \in DOMAIN snippetsCollection : snippetsCollection[i].id = id)
                     => /\ lastRequest'.status = 200
                        /\ LET Other(document) == document.id # id
                           IN snippetsCollection' = SelectSeq(snippetsCollection, Other)
                        /\ Len(snippetsCollection') = Len(snippetsCollection) - 1
      /\ \A segment \in PathSegments :
           (lastRequest'.route = "GET /api/snippets/:id" /\ GetRequest(segment, <<>>))
             => /\ snippetsCollection' = snippetsCollection
                /\ ~ObjectIdIsValid(ObjectIdOf(segment)) => lastRequest'.status = 400
                /\ (ObjectIdIsValid(ObjectIdOf(segment)) /\ Matched(ObjectIdOf(segment)) = {})
                     => lastRequest'.status = 404
      /\ lastRequest'.status \in { 400, 404 } => snippetsCollection' = snippetsCollection ]_vars

\* A DELETE of an id given once and deleted since, answered 404 with the
\* two other documents in place.
C26_Witness ==
  /\ lastRequest.route = "DELETE /api/snippets/:id"
  /\ lastRequest.status = 404
  /\ Len(snippetsCollection) = MaxDocuments
  /\ objectIds = MaxObjectIds

(***************************************************************************)
(* Desktop application (App.tsx): analyzeCodeWithAI and the ranking it     *)
(* falls back to, performLocalAnalysis, with its own tokenizer, similarity *)
(* and texts.                                                              *)
(***************************************************************************)

commonTokens ==
  { <<"f","u","n","c","t","i","o","n">>, <<"c","o","n","s","t">>, <<"l","e","t">>,
    <<"v","a","r">>, <<"i","f">>, <<"e","l","s","e">>, <<"f","o","r">>,
    <<"w","h","i","l","e">>, <<"r","e","t","u","r","n">>, <<"c","l","a","s","s">>,
    <<"i","m","p","o","r","t">>, <<"e","x","p","o","r","t">>, <<"f","r","o","m">> }

isCommonToken(token) == token \in commonTokens

\* The places where a field of code.split(/[^\w]/) that is not empty starts:
\* a word character at the start or after a character that is none.
FieldStarts(s) ==
  { i \in DOMAIN s : IsWordChar(s[i]) /\ (i = 1 \/ ~IsWordChar(s[i - 1])) }

\* The field that starts at place i: up to the next character that is not
\* a word character, or to the end.
FieldAt(s, i) ==
  LET last == CHOOSE j \in i..Len(s) :
                /\ IsWordChar(s[j])
                /\ j = Len(s) \/ ~IsWordChar(s[j + 1])
  IN SubSeq(s, i, last)

\* token.replace(/[0-9]/g, '')
NotDigit(c) == ~IsDigit(c)

WithoutDigits(token) == SelectSeq(token, NotDigit)

\* The places of the fields kept by both filters of tokenizeCode: longer than
\* 2 and not common, and longer than 1 once the digits are removed.
KeptFields(s) ==
  { i \in FieldStarts(s) :
      /\ Len(FieldAt(s, i)) > 2
      /\ ~isCommonToken(FieldAt(s, i))
      /\ Len(WithoutDigits(FieldAt(s, i))) > 1 }

\* The k-th smallest member of a set of places.
NthPlace(places, k) ==
  CHOOSE i \in places : Cardinality({ j \in places : j <= i }) = k

\* tokenizeCode of App.tsx. The empty fields of the split are dropped by the
\* first filter, so the tokens are taken from the fields that are not empty,
\* in the order of their places.
App_tokenizeCode(code) ==
  LET s == toLowerCase(code)
      kept == KeptFields(s)
  IN [k \in 1..Cardinality(kept) |-> WithoutDigits(FieldAt(s, NthPlace(kept, k)))]

\* calculateCodeSimilarity of App.tsx.
App_calculateCodeSimilarity(code1, code2) ==
  LET set1 == Range(App_tokenizeCode(code1))
      set2 == Range(App_tokenizeCode(code2))
      intersection == set1 \cap set2
      union == set1 \cup set2
  IN IF Cardinality(union) = 0 THEN Zero
     ELSE Quotient(Cardinality(intersection), Cardinality(union))

\* getSimilarityReason of App.tsx.
App_getSimilarityReason(similarity) ==
  IF Greater(similarity, 7, 10) THEN "Very similar code structure and logic"
  ELSE IF Greater(similarity, 1, 2) THEN "Similar implementation approach"
  ELSE IF Greater(similarity, 3, 10) THEN "Related code patterns"
  ELSE "Some common elements"

UsesSimilarPatterns ==
  <<"U","s","e","s"," ","s","i","m","i","l","a","r"," ","p","a","t","t","e","r","n","s",":"," ">>

SimilarCodingStyle ==
  <<"S","i","m","i","l","a","r"," ","c","o","d","i","n","g"," ","s","t","y","l","e"," ",
    "o","r"," ","s","t","r","u","c","t","u","r","e">>

detectContext(snippetCode, currentCode) ==
  LET snippetTokens == App_tokenizeCode(snippetCode)
      currentTokens == App_tokenizeCode(currentCode)
      Common(token) == Includes(currentTokens, token) /\ Len(token) > 3
      commonPatterns == SelectSeq(snippetTokens, Common)
  IN IF Len(commonPatterns) > 0
     THEN UsesSimilarPatterns \o Join(SliceTo(commonPatterns, 3), <<",", " ">>)
     ELSE SimilarCodingStyle

RECURSIVE LocalSuggestions(_, _, _)
\* snippets.forEach of performLocalAnalysis.
LocalSuggestions(code, list, suggestions) ==
  IF list = <<>> THEN suggestions
  ELSE LET snippet == Head(list)
           similarity == App_calculateCodeSimilarity(code, snippet.code)
       IN LocalSuggestions(code, Tail(list),
            IF Greater(similarity, 3, 10)
            THEN Append(suggestions,
                   [ snippet |-> snippet,
                     reason |-> App_getSimilarityReason(similarity),
                     confidence |-> similarity,
                     context |-> detectContext(snippet.code, code) ])
            ELSE suggestions)

\* setAiSuggestions called only when the ranking found something.
SetSuggestionsIfAny(displayed, ranked) == IF ranked = <<>> THEN displayed ELSE ranked

\* setAiSuggestions(suggestions.slice(0, 3)) of performLocalAnalysis: what is
\* displayed after it, whatever was displayed before.
SetSuggestions(displayed, ranked) == ranked

\* performLocalAnalysis over the snippets of the render it belongs to: the
\* values it sets.
performLocalAnalysis(code, list, displayed) ==
  LET suggestions == SortByConfidence(LocalSuggestions(code, list, <<>>))
  IN [ aiSuggestions |-> SetSuggestions(displayed, SliceTo(suggestions, 3)),
       showAIPanel |-> Len(suggestions) > 0 ]

\* !code.trim()
IsBlank(code) == \A i \in DOMAIN code : IsSpace(code[i])

(***************************************************************************)
(* Inputs of the desktop application: the sample snippets loaded when the  *)
(* first load fails, a list the server answers, a snippet added with the   *)
(* form, the codes analysed and the suggestions the server answers. At     *)
(* most MaxAnalyses calls of analyzeCodeWithAI are made.                   *)
(***************************************************************************)

MaxAnalyses == 2

ReactHookFormSetup ==
  <<"c","o","n","s","t"," ","{"," ","r","e","g","i","s","t","e","r",","," ","h","a","n","d","l","e",
     "S","u","b","m","i","t",","," ","f","o","r","m","S","t","a","t","e",":"," ","{"," ","e","r","r",
     "o","r","s"," ","}"," ","}"," ","="," ","u","s","e","F","o","r","m","(",")",";","\n","c","o","n",
     "s","t"," ","o","n","S","u","b","m","i","t"," ","="," ","d","a","t","a"," ","=",">"," ","c","o",
     "n","s","o","l","e",".","l","o","g","(","d","a","t","a",")",";">>

ApiFetchWrapper ==
  <<"a","s","y","n","c"," ","f","u","n","c","t","i","o","n"," ","a","p","i","F","e","t","c","h","(",
     "u","r","l",","," ","o","p","t","i","o","n","s"," ","="," ","{","}",")"," ","{","\n"," "," ","c",
     "o","n","s","t"," ","r","e","s","p","o","n","s","e"," ","="," ","a","w","a","i","t"," ","f","e",
     "t","c","h","(","u","r","l",","," ","{","\n"," "," "," "," ","h","e","a","d","e","r","s",":"," ",
     "{"," ","'","C","o","n","t","e","n","t","-","T","y","p","e","'",":"," ","'","a","p","p","l","i",
     "c","a","t","i","o","n","/","j","s","o","n","'"," ","}",",","\n"," "," "," "," ",".",".",".","o",
     "p","t","i","o","n","s","\n"," "," ","}",")",";","\n"," "," ","r","e","t","u","r","n"," ","r","e",
     "s","p","o","n","s","e",".","j","s","o","n","(",")",";","\n","}">>

SampleSnippets ==
  << [ id |-> "1", title |-> "React Hook Form Setup", code |-> ReactHookFormSetup ],
     [ id |-> "2", title |-> "API Fetch Wrapper", code |-> ApiFetchWrapper ] >>

\* "print('hello, world!')"
PrintHelloWorld ==
  <<"p","r","i","n","t","(","'","h","e","l","l","o",","," ","w","o","r","l","d","!","'",")">>

\* "const response = await fetch(url, options)"
AwaitFetch ==
  <<"c","o","n","s","t"," ","r","e","s","p","o","n","s","e"," ","="," ","a","w","a","i","t"," ","f",
     "e","t","c","h","(","u","r","l",","," ","o","p","t","i","o","n","s",")">>

\* "fetch(url)"
FetchUrl == <<"f","e","t","c","h","(","u","r","l",")">>

TwentySpaces == [i \in 1..20 |-> " "]

MaxAdds == 2

\* The drafts the form is filled in with.
Drafts == { [title |-> "Hello", code |-> PrintHelloWorld],
            [title |-> "Blank", code |-> TwentySpaces] }

ServerSnippets == << [ id |-> "s1", title |-> "Await fetch", code |-> AwaitFetch ] >>

UiCodes == { PrintHelloWorld, AwaitFetch, FetchUrl, TwentySpaces }

ServerSuggestions ==
  << [ snippet |-> ServerSnippets[1], reason |-> "Similar logic and structure",
       confidence |-> Quotient(3, 5),
       context |-> CommonPatterns \o <<"f","e","t","c","h">> ] >>

(***************************************************************************)
(* SpecUi: the application after it is mounted. An entry of analyses is a  *)
(* call of analyzeCodeWithAI: its code, the snippets of the render whose   *)
(* callback was called (the dependencies of useCallback are snippets and   *)
(* backendStatus, so they are those loaded at the call) and where it is.   *)
(***************************************************************************)

\* checkBackendStatus returns.
HealthResponds(ok) ==
  /\ healthPc = "pending"
  /\ healthPc' = "done"
  /\ backendStatus' = IF ok THEN "online" ELSE "offline"
  /\ UNCHANGED <<uiSnippets, aiSuggestions, showAIPanel, isAnalyzing, analyses, loadPc,
                 simVars, rankVars, guardVars, vaultVars, textVars, serverVars, handlerVars, formVars, reloadVars>>

\* loadSnippets returns: the list of the server, or the samples when the
\* request failed.
LoadSnippetsReturns(ok) ==
  /\ loadPc = "pending"
  /\ loadPc' = "done"
  /\ uiSnippets' = IF ok THEN ServerSnippets ELSE SampleSnippets
  /\ backendStatus' = IF ok THEN "online" ELSE "offline"
  /\ UNCHANGED <<aiSuggestions, showAIPanel, isAnalyzing, analyses, healthPc,
                 simVars, rankVars, guardVars, vaultVars, textVars, serverVars, handlerVars, formVars, reloadVars>>

\* The button 'Add snippet': setShowAddForm(true).
ShowAddForm ==
  /\ ~showAddForm
  /\ showAddForm' = TRUE
  /\ UNCHANGED <<newSnippet, adds, uiVars,
                 simVars, rankVars, guardVars, vaultVars, textVars, serverVars, handlerVars, reloadVars>>

\* The button 'Cancel' of the form: setShowAddForm(false).
CancelAddForm ==
  /\ showAddForm
  /\ showAddForm' = FALSE
  /\ UNCHANGED <<newSnippet, adds, uiVars,
                 simVars, rankVars, guardVars, vaultVars, textVars, serverVars, handlerVars, reloadVars>>

\* The fields of the form are filled in.
EditDraft(draft) ==
  /\ showAddForm
  /\ newSnippet # draft
  /\ newSnippet' = draft
  /\ UNCHANGED <<showAddForm, adds, uiVars,
                 simVars, rankVars, guardVars, vaultVars, textVars, serverVars, handlerVars, reloadVars>>

\* snippetToAdd: the draft with an id and a date of the application.
SnippetToAdd(draft) == [ id |-> "3", title |-> draft.title, code |-> draft.code ]

\* res.data: the snippet as the server created it, with its own id.
CreatedByServer(snippet) == [ snippet EXCEPT !.id = "s2" ]

\* The snippet is appended, the form closed and the draft reset.
AppendCloseReset(snippet) ==
  /\ uiSnippets' = Append(uiSnippets, snippet)
  /\ showAddForm' = FALSE
  /\ newSnippet' = EmptyDraft

\* The snippet is appended by the try block and again by the catch block.
AppendTwiceCloseReset(snippet) ==
  /\ uiSnippets' = uiSnippets \o << CreatedByServer(snippet), snippet >>
  /\ showAddForm' = FALSE
  /\ newSnippet' = EmptyDraft

\* The catch block of addSnippet: the snippet of the call is kept locally.
SaveLocally(snippet) == AppendCloseReset(snippet)

\* addSnippet, called by the button 'Save Snippet' (enabled when the title
\* and the code of the draft are not blank), up to its return or its await.
\* An entry of adds is a call: its snippetToAdd and where it is.
AddSnippet ==
  /\ showAddForm
  /\ newSnippet.title # "" /\ ~IsBlank(newSnippet.code)
  /\ Len(adds) < MaxAdds
  /\ IF backendStatus = "online"
     THEN /\ adds' = Append(adds, [snippet |-> SnippetToAdd(newSnippet), pc |-> "awaiting"])
          /\ UNCHANGED <<uiSnippets, showAddForm, newSnippet>>
     ELSE /\ AppendCloseReset(SnippetToAdd(newSnippet))
          /\ adds' = Append(adds, [snippet |-> SnippetToAdd(newSnippet), pc |-> "local"])
  /\ UNCHANGED <<backendStatus, aiSuggestions, showAIPanel, isAnalyzing, analyses, healthPc,
                 loadPc, simVars, rankVars, guardVars, vaultVars, textVars, serverVars, handlerVars, reloadVars>>

\* The create request of call k is answered: res.data is appended.
AddResponds(k) ==
  /\ adds[k].pc = "awaiting"
  /\ AppendCloseReset(CreatedByServer(adds[k].snippet))
  /\ adds' = [adds EXCEPT ![k].pc = "server"]
  /\ UNCHANGED <<backendStatus, aiSuggestions, showAIPanel, isAnalyzing, analyses, healthPc,
                 loadPc, simVars, rankVars, guardVars, vaultVars, textVars, serverVars, handlerVars, reloadVars>>

\* The create request of call k fails: the catch block.
AddFails(k) ==
  /\ adds[k].pc = "awaiting"
  /\ SaveLocally(adds[k].snippet)
  /\ adds' = [adds EXCEPT ![k].pc = "local after failure"]
  /\ UNCHANGED <<backendStatus, aiSuggestions, showAIPanel, isAnalyzing, analyses, healthPc,
                 loadPc, simVars, rankVars, guardVars, vaultVars, textVars, serverVars, handlerVars, reloadVars>>

\* analyzeCodeWithAI up to its return or its await.
AnalyzeCodeWithAI(code) ==
  /\ Len(analyses) < MaxAnalyses
  /\ IF IsBlank(code) \/ Len(code) < 20
     THEN /\ aiSuggestions' = <<>>
          /\ showAIPanel' = FALSE
          /\ analyses' = Append(analyses, [code |-> code, snippets |-> uiSnippets,
                                           pc |-> "returned"])
          /\ UNCHANGED isAnalyzing
     ELSE IF backendStatus = "online"
     THEN /\ isAnalyzing' = TRUE
          /\ analyses' = Append(analyses, [code |-> code, snippets |-> uiSnippets,
                                           pc |-> "awaiting"])
          /\ UNCHANGED <<aiSuggestions, showAIPanel>>
     ELSE LET local == performLocalAnalysis(code, uiSnippets, aiSuggestions)
          IN /\ aiSuggestions' = local.aiSuggestions
             /\ showAIPanel' = local.showAIPanel
             /\ isAnalyzing' = FALSE
             /\ analyses' = Append(analyses, [code |-> code, snippets |-> uiSnippets,
                                              pc |-> "local"])
  /\ UNCHANGED <<uiSnippets, backendStatus, healthPc, loadPc,
                 simVars, rankVars, guardVars, vaultVars, textVars, serverVars, handlerVars, formVars, reloadVars>>

\* The request of call k is answered: response.data.suggestions || [].
AnalyzeResponds(k, suggestions) ==
  /\ analyses[k].pc = "awaiting"
  /\ aiSuggestions' = suggestions
  /\ showAIPanel' = TRUE
  /\ isAnalyzing' = FALSE
  /\ analyses' = [analyses EXCEPT ![k].pc = "server"]
  /\ UNCHANGED <<uiSnippets, backendStatus, healthPc, loadPc,
                 simVars, rankVars, guardVars, vaultVars, textVars, serverVars, handlerVars, formVars, reloadVars>>

\* The request of call k fails: the catch block.
AnalyzeFails(k) ==
  /\ analyses[k].pc = "awaiting"
  /\ LET local == performLocalAnalysis(analyses[k].code, analyses[k].snippets, aiSuggestions)
     IN /\ aiSuggestions' = local.aiSuggestions
        /\ showAIPanel' = local.showAIPanel
  /\ isAnalyzing' = FALSE
  /\ analyses' = [analyses EXCEPT ![k].pc = "local"]
  /\ UNCHANGED <<uiSnippets, backendStatus, healthPc, loadPc,
                 simVars, rankVars, guardVars, vaultVars, textVars, serverVars, handlerVars, formVars, reloadVars>>

UiNext ==
  \/ \E ok \in BOOLEAN : HealthResponds(ok)
  \/ \E ok \in BOOLEAN : LoadSnippetsReturns(ok)
  \/ \E code \in UiCodes : AnalyzeCodeWithAI(code)
  \/ \E k \in DOMAIN analyses, suggestions \in { <<>>, ServerSuggestions } :
       AnalyzeResponds(k, suggestions)
  \/ \E k \in DOMAIN analyses : AnalyzeFails(k)

SpecUi == Init /\ [][UiNext]_vars

\* The add form and the mount effect, whose returns set the backend status
\* and replace the list while a call of addSnippet awaits.
FormNext ==
  \/ \E ok \in BOOLEAN : HealthResponds(ok)
  \/ \E ok \in BOOLEAN : LoadSnippetsReturns(ok)
  \/ ShowAddForm
  \/ CancelAddForm
  \/ \E draft \in Drafts : EditDraft(draft)
  \/ AddSnippet
  \/ \E k \in DOMAIN adds : AddResponds(k)
  \/ \E k \in DOMAIN adds : AddFails(k)

SpecForm == Init /\ [][FormNext]_vars

\* The snippets of a list whose similarity with the code is above 0.3, by
\* decreasing similarity, the first three.
LocalRanking(code, list) ==
  SliceTo(SortByConfidence(LocalSuggestions(code, list, <<>>)), 3)

\* C17: whenever analyzeCodeWithAI is called with a code of at least 20
\* characters while the backend status is not 'online', or its request to
\* the server fails, the suggestions displayed become the ranking computed
\* by the application over the snippets loaded at the call, whatever was
\* displayed before.
C17_FallbackReplacesSuggestions ==
  [][ /\ \A code \in UiCodes :
           (Len(code) >= 20 /\ backendStatus # "online" /\ AnalyzeCodeWithAI(code))
             => aiSuggestions' = LocalRanking(code, uiSnippets)
      /\ \A k \in DOMAIN analyses :
           (analyses[k].pc = "awaiting" /\ AnalyzeFails(k))
             => /\ Len(analyses[k].code) >= 20
                /\ aiSuggestions' = LocalRanking(analyses[k].code, analyses[k].snippets) ]_vars

\* A first call answered by the server, then a second whose request failed
\* and whose ranking is empty: nothing is displayed any more.
C17_Witness ==
  /\ Len(analyses) = 2
  /\ analyses[1].pc = "server"
  /\ analyses[2].pc = "local"
  /\ analyses[2].code = PrintHelloWorld
  /\ aiSuggestions = <<>>
  /\ showAIPanel = FALSE
  /\ backendStatus = "online"

(***************************************************************************)
(* SpecFallback: the ranking of the application and the ranking of the     *)
(* server on the same code and the same snippets. The application is not   *)
(* online and its list is the corpus; analyzeCodeWithAI and                *)
(* analyzeSimilarity are each applied once, in either order. The codes     *)
(* have at least 20 characters; some have tokens with digits, some the     *)
(* word from, some neither.                                                *)
(***************************************************************************)

MaxFallbackCorpus == 2

\* "item1 item2 total count"
ItemsTotalCount ==
  <<"i","t","e","m","1"," ","i","t","e","m","2"," ","t","o","t","a","l"," ","c","o","u","n","t">>

\* "item3 total count sum"
ItemTotalCountSum ==
  <<"i","t","e","m","3"," ","t","o","t","a","l"," ","c","o","u","n","t"," ","s","u","m">>

\* "fetch data from server url"
FetchDataFromServer ==
  <<"f","e","t","c","h"," ","d","a","t","a"," ","f","r","o","m"," ","s","e","r","v","e","r"," ","u","r","l">>

\* "load data from server"
LoadDataFromServer ==
  <<"l","o","a","d"," ","d","a","t","a"," ","f","r","o","m"," ","s","e","r","v","e","r">>

\* "fetch url json header"
FetchUrlJsonHeader ==
  <<"f","e","t","c","h"," ","u","r","l"," ","j","s","o","n"," ","h","e","a","d","e","r">>

\* "fetch url json array"
FetchUrlJsonArray ==
  <<"f","e","t","c","h"," ","u","r","l"," ","j","s","o","n"," ","a","r","r","a","y">>

FallbackCodes ==
  { ItemsTotalCount, ItemTotalCountSum, FetchDataFromServer, LoadDataFromServer,
    FetchUrlJsonHeader, FetchUrlJsonArray }

RECURSIVE FallbackCorpora(_)
\* The lists of at most n snippets with these codes; a snippet's id and
\* title are its place.
FallbackCorpora(n) ==
  IF n = 0 THEN { <<>> }
  ELSE LET shorter == FallbackCorpora(n - 1)
           Ids == << "1", "2", "3" >>
       IN shorter \cup
          { Append(c, [id |-> Ids[Len(c) + 1], title |-> Ids[Len(c) + 1], code |-> k]) :
              c \in { d \in shorter : Len(d) = n - 1 }, k \in FallbackCodes }

FallbackInit ==
  /\ rankPc = "start"
  /\ rankQuery \in FallbackCodes
  /\ rankCorpus \in FallbackCorpora(MaxFallbackCorpus)
  /\ rankOut = <<>>
  /\ uiSnippets = rankCorpus
  /\ backendStatus = "offline"
  /\ aiSuggestions = <<>>
  /\ showAIPanel = TRUE
  /\ isAnalyzing = FALSE
  /\ analyses = <<>>
  /\ healthPc = "done"
  /\ loadPc = "done"
  /\ SimIdle
  /\ GuardIdle
  /\ VaultIdle
  /\ TextIdle
  /\ ServerIdle
  /\ HandlerIdle
  /\ FormIdle
  /\ ReloadIdle

\* The button 'Analyze' with the code of the query, once.
AnalyzeQueryLocally ==
  /\ analyses = <<>>
  /\ AnalyzeCodeWithAI(rankQuery)

FallbackNext == AnalyzeSimilarity \/ AnalyzeQueryLocally

SpecFallback == FallbackInit /\ [][FallbackNext]_vars

\* The snippets and the confidences of a list of suggestions, in its order.
SnippetsAndConfidences(suggestions) ==
  [ i \in DOMAIN suggestions |->
      [ snippet |-> suggestions[i].snippet, confidence |-> suggestions[i].confidence ] ]

\* C25: the suggestions of performLocalAnalysis are the first 3 of those
\* analyzeSimilarity returns for the same code and the same snippets: the
\* same snippets with the same confidences in the same order.
C25_LocalRankingIsServerRanking ==
  (rankPc = "done" /\ Len(analyses) = 1)
    => SnippetsAndConfidences(aiSuggestions) = SliceTo(SnippetsAndConfidences(rankOut), 3)

\* C28: every call of addSnippet that completes appends one snippet to the
\* list, closes the form and resets the draft: the snippet the server
\* answered when the create request succeeded, the snippet of the call when
\* the backend is not online or the request failed; the list changes in no
\* other way while a call is made or completes.
C28_AddAppendsOne ==
  [][ /\ (backendStatus # "online" /\ AddSnippet)
          => /\ uiSnippets' = Append(uiSnippets, SnippetToAdd(newSnippet))
             /\ ~showAddForm' /\ newSnippet' = EmptyDraft
      /\ (backendStatus = "online" /\ AddSnippet) => uiSnippets' = uiSnippets
      /\ \A k \in DOMAIN adds :
           /\ (adds[k].pc = "awaiting" /\ AddResponds(k))
                => /\ uiSnippets' = Append(uiSnippets, CreatedByServer(adds[k].snippet))
                   /\ ~showAddForm' /\ newSnippet' = EmptyDraft
           /\ (adds[k].pc = "awaiting" /\ AddFails(k))
                => /\ uiSnippets' = Append(uiSnippets, adds[k].snippet)
                   /\ ~showAddForm' /\ newSnippet' = EmptyDraft
           /\ (adds[k].pc # "awaiting" /\ adds'[k].pc # "awaiting")
                => adds'[k] = adds[k] ]_vars

\* Two calls made while the backend was online, the first answered by the
\* server, the second failed: the list has the server's snippet, then the
\* snippet of the second call, after the snippets loaded; the form is closed.
C28_Witness ==
  /\ Len(adds) = 2
  /\ adds[1].pc = "server"
  /\ adds[2].pc = "local after failure"
  /\ Len(uiSnippets) = Len(ServerSnippets) + 2
  /\ uiSnippets[Len(uiSnippets) - 1] = CreatedByServer(adds[1].snippet)
  /\ uiSnippets[Len(uiSnippets)] = adds[2].snippet
  /\ ~showAddForm
  /\ newSnippet = EmptyDraft

\* A call made while the backend was not online.
C28_WitnessOffline ==
  /\ Len(adds) = 1
  /\ adds[1].pc = "local"
  /\ backendStatus = "offline"
  /\ uiSnippets = Append(SampleSnippets, adds[1].snippet)
  /\ ~showAddForm

\* C29: isAnalyzing is true exactly while a call of analyzeCodeWithAI
\* awaits the answer of the server, however the calls overlap.
C29_AnalyzingWhileInFlight ==
  isAnalyzing <=> \E k \in DOMAIN analyses : analyses[k].pc = "awaiting"

=============================================================================
